---- MODULE Spec2Model ----
(***************************************************************************)
(* A model of scratchstack-http-framework.                                 *)
(*                                                                         *)
(* Spec      : AwsSigV4VerifierService::call (src/src/sigv4.rs), one       *)
(*             request future at a time, from its creation to its result.  *)
(* SpecReady : AwsSigV4VerifierService::poll_ready against two             *)
(*             collaborators whose readiness changes over time.            *)
(* SpecTls   : TlsIncoming::poll_accept (src/src/tls.rs) against a         *)
(*             listener and the handshakes it starts.                      *)
(* SpecGsk   : GetSigningKeyFromDatabase::call (src/src/gsk_direct.rs)     *)
(*             against a pool whose operations succeed or fail.            *)
(* SpecBinder: Binder::new and Binder::next_param_id.                      *)
(* SpecRid   : RequestId made, rendered, parsed back and asked for its     *)
(*             timestamp (src/src/request_id.rs).                          *)
(* SpecMapper: XmlErrorMapper::map_error (src/src/sigv4.rs) and the XML    *)
(*             document it serializes.                                     *)
(* SpecSpawn : SpawnService::poll_ready and SpawnService::call             *)
(*             (src/src/service_spawn.rs), one connection after another.   *)
(* SpecInterleaved : several futures of one AwsSigV4VerifierService::call  *)
(*             in flight, polled in any interleaving.                      *)
(* SpecTlsProgress : TlsIncoming::poll_accept called without end on a      *)
(*             listener that never errors, with fairness.                  *)
(***************************************************************************)
EXTENDS Naturals, Integers, Sequences, FiniteSets

VARIABLES
    cfg,         \* the service's fields: region, service, the two allowed lists, the signature settings
    pc,          \* where the future returned by call() stands
    req,         \* the request the future owns (method, headers, extensions)
    inbound_id,  \* the RequestId the request carried when call() received it (history)
    request_id,  \* the local `request_id` of the async block
    checks,      \* what rule 2 and rule 3 decided for this request (history)
    calls,       \* per request: how often each collaborator was invoked (history)
    error,       \* the error on its way to the error mapper
    verifier,    \* what sigv4_validate_request returned
    mapped,      \* what the error mapper was given and what it returned
    handled,     \* what the implementation was given and what it returned
    result,      \* the output of the future
    g_state,     \* what get_signing_key.poll_ready answers when polled now
    s_state,     \* what implementation.poll_ready answers when polled now
    polls,       \* how often each collaborator's poll_ready has been called
    ready        \* the last poll_ready of the service: what it saw and returned

callVars == <<cfg, pc, req, inbound_id, request_id, checks, calls, error,
              verifier, mapped, handled, result>>

readyVars == <<g_state, s_state, polls, ready>>

VARIABLES
    tls_stream_accept,  \* TlsIncoming.tls_stream_accept: the handshake in progress, if any
    tls_accepted,       \* how many connections the listener has handed out (history)
    tls_polls,          \* how many times poll_accept has been called (history)
    tls_items,          \* the items poll_accept has yielded, in order (history)
    tls_last,           \* the last poll_accept: what it polled and returned
    tls_panicked        \* a poll_accept call panicked

tlsVars == <<tls_stream_accept, tls_accepted, tls_polls, tls_items, tls_last, tls_panicked>>

VARIABLES
    gsk_kind,      \* the AnyKind of the pool GetSigningKeyFromDatabase was built with
    gsk_pc,        \* where the future returned by GetSigningKeyFromDatabase::call stands
    gsk_req,       \* the GetSigningKeyRequest it was called with, if any
    gsk_ops,       \* the database operations it has performed, in order (history)
    gsk_failure,   \* the error the database returned to it, if any (history)
    gsk_result,    \* what the future returned, once it has
    gsk_panicked   \* the future panicked

gskVars == <<gsk_kind, gsk_pc, gsk_req, gsk_ops, gsk_failure, gsk_result, gsk_panicked>>

VARIABLES
    binders,       \* the Binder values created: kind and next_id of each, if created
    binder_ids     \* what next_param_id has returned for each Binder, in call order (history)

binderVars == <<binders, binder_ids>>

VARIABLES
    rid_input,     \* the (unix_timestamp, random) pair a RequestId was made from, if any
    rid_value,     \* the RequestId made from it
    rid_text,      \* its Display rendering, once taken
    rid_parsed,    \* the result of parsing that rendering, once parsed
    rid_timestamp  \* what unix_timestamp() returned for it, once called

ridVars == <<rid_input, rid_value, rid_text, rid_parsed, rid_timestamp>>

VARIABLES
    mapper_self,     \* the XmlErrorMapper: its namespace
    mapper_input,    \* the error and the request id map_error was called with, if called
    mapper_returned, \* what map_error returned
    mapper_xml       \* the XML document it serialized into the body, if it built one

mapperVars == <<mapper_self, mapper_input, mapper_returned, mapper_xml>>

VARIABLES
    spawn_self,      \* the SpawnService: its fields
    spawn_made,      \* what call has returned for each connection so far, in order (history)
    spawn_ready      \* what poll_ready returned last, if polled

spawnVars == <<spawn_self, spawn_made, spawn_ready>>

VARIABLES
    parked           \* the futures call() returned that are suspended at an await, one per slot

parkedVars == <<parked>>

\* The variables of the other components, which the verifier service leaves alone.
otherVars == <<tlsVars, gskVars, binderVars, ridVars, mapperVars, spawnVars, parkedVars>>

\* The variables TlsIncoming leaves alone.
nonTlsVars == <<callVars, readyVars, gskVars, binderVars, ridVars, mapperVars, spawnVars, parkedVars>>

\* The variables GetSigningKeyFromDatabase leaves alone.
nonGskVars == <<callVars, readyVars, tlsVars, binderVars, ridVars, mapperVars, spawnVars, parkedVars>>

\* The variables a Binder leaves alone.
nonBinderVars == <<callVars, readyVars, tlsVars, gskVars, ridVars, mapperVars, spawnVars, parkedVars>>

\* The variables a RequestId leaves alone.
nonRidVars == <<callVars, readyVars, tlsVars, gskVars, binderVars, mapperVars, spawnVars, parkedVars>>

\* The variables XmlErrorMapper leaves alone.
nonMapperVars == <<callVars, readyVars, tlsVars, gskVars, binderVars, ridVars, spawnVars, parkedVars>>

\* The variables SpawnService leaves alone.
nonSpawnVars == <<callVars, readyVars, tlsVars, gskVars, binderVars, ridVars, mapperVars, parkedVars>>

vars == <<cfg, pc, req, inbound_id, request_id, checks, calls, error,
          verifier, mapped, handled, result, g_state, s_state, polls, ready,
          otherVars>>

(***************************************************************************)
(* Bounds                                                                  *)
(***************************************************************************)
\* Number of distinct RequestId values RequestId::new() can produce.
MaxIds == 2

\* Number of poll_ready calls followed per collaborator.
MaxPolls == 3

\* Number of TlsIncoming::poll_accept calls followed.
MaxAcceptPolls == 4

\* Number of Binder values followed.
MaxBinders == 2

\* Number of next_param_id calls followed per Binder.
MaxParams == 11

\* Number of connections handed to one SpawnService.
MaxConnections == 3

\* Number of connections the listener has to offer when progress is followed.
MaxOffered == 2

\* Number of poll_accept calls counted, and of items kept, when progress is followed.
MaxCounted == 8

\* Number of suspended futures of one AwsSigV4VerifierService, next to the one polled.
MaxParked == 1

\* Option<T>: None, or Some(x) holding x.
None == <<>>

Some(x) == <<x>>

IsSome(o) == o # None

Unwrap(o) == o[1]

Option(S) == {None} \cup {Some(x) : x \in S}

RequestIds == 1..MaxIds

(***************************************************************************)
(* Values                                                                  *)
(***************************************************************************)
Methods == {"GET", "POST"}

BaseTypes == {"application/json", "application/octet-stream"}

\* headers().get("content-type"): a header value as its ';'-separated parts.
ContentTypeHeaders ==
    Option({<<"application/json">>, <<"application/json", "charset=utf-8">>,
            <<"application/octet-stream">>})

\* headers().get("transfer-encoding"): a header value as its ','-separated parts.
TransferEncodingHeaders ==
    Option({<<"gzip">>, <<"chunked">>, <<"gzip", " chunked">>})

NoExtensions == [RequestId |-> None, Principal |-> None, SessionData |-> None]

Requests ==
    [method : Methods,
     content_type : ContentTypeHeaders,
     content_length : BOOLEAN,
     expect : BOOLEAN,
     transfer_encoding : TransferEncodingHeaders,
     extensions : {[NoExtensions EXCEPT !.RequestId = i] : i \in Option(RequestIds)}]

Configs ==
    [region : {"local"},
     service : {"service"},
     allowed_request_methods : SUBSET Methods,
     allowed_content_types : SUBSET BaseTypes,
     signed_header_requirements : {"default"},
     signature_options : {"default"},
     namespace : {"service-ns"}]

SignatureError(variant, message) ==
    [type |-> "SignatureError", variant |-> variant, message |-> message]

ForeignError(what) ==
    [type |-> "Foreign", variant |-> what, message |-> <<what>>]

\* Errors sigv4_validate_request produces itself, before any key lookup.
VerifierRejections ==
    {SignatureError("MissingAuthenticationToken", <<"Request is missing Authentication Token">>)}

\* Errors of the get_signing_key service: the verifier hands them on.
GetSigningKeyErrors ==
    {SignatureError("InvalidClientTokenId", <<"The AWS access key provided does not exist in our records">>),
     SignatureError("InternalServiceError", <<"Internal Failure">>),
     ForeignError("FromUtf8Error")}

SignatureDoesNotMatch ==
    SignatureError("SignatureDoesNotMatch", <<"The request signature we calculated does not match">>)

\* Errors of the implementation service.
ImplementationErrors ==
    {ForeignError("HandlerError"), SignatureError("InternalServiceError", <<"handler">>)}

Principals == {"user/test", "user/other"}

SessionDatas == {"session"}

\* Result<T, E>
Ok(x) == [ok |-> TRUE, value |-> x]

Err(e) == [ok |-> FALSE, value |-> e]

NoCalls ==
    [new_request_id |-> 0, sigv4_validate_request |-> 0, get_signing_key |-> 0,
     implementation |-> 0, map_error |-> 0]

NoChecks == [method |-> "unchecked", content_type |-> "unchecked"]

NoVerifier == [returned |-> "NotCalled", principal |-> None, session_data |-> None, error |-> None]

NoMapped == [error |-> None, request_id |-> None, returned |-> None]

NoHandled == [req |-> None, returned |-> None]

\* Poll<T>: Pending, or Ready(x).
Pending == <<>>

Ready(x) == <<x>>

Unit == [type |-> "Unit"]

GetSigningKeyNotReady == ForeignError("GetSigningKeyNotReady")

ImplementationNotReady == ForeignError("ImplementationNotReady")

\* What get_signing_key.poll_ready can answer.
GPolls == {Pending, Ready(Ok(Unit)), Ready(Err(GetSigningKeyNotReady))}

\* What implementation.poll_ready can answer.
SPolls == {Pending, Ready(Ok(Unit)), Ready(Err(ImplementationNotReady))}

\* No poll_ready of the service yet.
NotPolled == [polled |-> FALSE, g |-> Pending, s |-> Pending, s_polled |-> FALSE, result |-> Pending]

\* The builder's defaults, as the tests build the service.
DefaultConfig ==
    [region |-> "local", service |-> "service", allowed_request_methods |-> {},
     allowed_content_types |-> {}, signed_header_requirements |-> "default",
     signature_options |-> "default", namespace |-> "service-ns"]

\* No poll_accept of the TlsIncoming yet.
NoAccept ==
    [listener_polled |-> FALSE, handshake_started |-> FALSE, handshake_polled |-> FALSE,
     repolled |-> FALSE, returned |-> Pending]

\* TlsIncoming::new: no handshake in progress.
TlsNew ==
    /\ tls_stream_accept = None
    /\ tls_accepted = 0
    /\ tls_polls = 0
    /\ tls_items = <<>>
    /\ tls_last = NoAccept
    /\ tls_panicked = FALSE

\* The state of a future of call(): the locals and the history kept for it.
NoFuture ==
    [pc |-> "idle", req |-> None, inbound_id |-> None, request_id |-> None,
     checks |-> NoChecks, calls |-> NoCalls, error |-> None, verifier |-> NoVerifier,
     mapped |-> NoMapped, handled |-> NoHandled, result |-> None]

\* No future is suspended.
ParkedIdle == parked = [i \in 1..MaxParked |-> NoFuture]

\* The verifier service as built, with no request and no poll_ready yet.
CallIdle ==
    /\ ParkedIdle
    /\ cfg = DefaultConfig
    /\ pc = "idle"
    /\ req = None
    /\ inbound_id = None
    /\ request_id = None
    /\ checks = NoChecks
    /\ calls = NoCalls
    /\ error = None
    /\ verifier = NoVerifier
    /\ mapped = NoMapped
    /\ handled = NoHandled
    /\ result = None

ReadyIdle ==
    /\ g_state = Ready(Ok(Unit))
    /\ s_state = Ready(Ok(Unit))
    /\ polls = [g |-> 0, s |-> 0]
    /\ ready = NotPolled

\* GetSigningKeyFromDatabase with no call made.
GskIdle ==
    /\ gsk_kind = "Postgres"
    /\ gsk_pc = "idle"
    /\ gsk_req = None
    /\ gsk_ops = <<>>
    /\ gsk_failure = None
    /\ gsk_result = None
    /\ gsk_panicked = FALSE

\* No Binder created.
BinderIdle ==
    /\ binders = [b \in 1..MaxBinders |-> None]
    /\ binder_ids = [b \in 1..MaxBinders |-> <<>>]

\* No RequestId made.
RidIdle ==
    /\ rid_input = None
    /\ rid_value = None
    /\ rid_text = None
    /\ rid_parsed = None
    /\ rid_timestamp = None

\* XmlErrorMapper::new(namespace), not called.
MapperIdle ==
    /\ mapper_self = [namespace |-> DefaultConfig.namespace]
    /\ mapper_input = None
    /\ mapper_returned = None
    /\ mapper_xml = None

\* The SpawnService a builder with only the required fields set gives, not called.
SpawnDefault ==
    [region |-> DefaultConfig.region, service |-> DefaultConfig.service,
     allowed_request_methods |-> {}, allowed_content_types |-> {},
     signed_header_requirements |-> "default", get_signing_key |-> "GetDummyCreds",
     implementation |-> "HelloService",
     error_mapper |-> [namespace |-> DefaultConfig.namespace],
     signature_options |-> "default"]

SpawnIdle ==
    /\ spawn_self = SpawnDefault
    /\ spawn_made = <<>>
    /\ spawn_ready = None

\* The other components as constructed, untouched.
OthersIdle ==
    /\ TlsNew
    /\ GskIdle
    /\ BinderIdle
    /\ RidIdle
    /\ MapperIdle
    /\ SpawnIdle

(***************************************************************************)
(* Pure functions of AwsSigV4VerifierService::call                         *)
(***************************************************************************)
\* Mutant of get_content_type_and_charset: a request without the header is given
\* the type application/octet-stream.
get_content_type_and_charset_with_default(header) ==
    IF header = None
    THEN Some([content_type |-> "application/octet-stream", charset |-> None])
    ELSE LET parts == Unwrap(header)
         IN  Some([content_type |-> parts[1],
                   charset |-> IF Len(parts) > 1 THEN Some(parts[2]) ELSE None])

\* get_content_type_and_charset(req.headers()): the base type is the first
\* ';'-separated part of the Content-Type header, the charset the second.
get_content_type_and_charset(header) ==
    IF header = None
    THEN None
    ELSE LET parts == Unwrap(header)
         IN  Some([content_type |-> parts[1],
                   charset |-> IF Len(parts) > 1 THEN Some(parts[2]) ELSE None])

\* str::trim on one ','-separated part of Transfer-Encoding.
trim(part) ==
    IF part = " chunked" THEN "chunked" ELSE part

\* for part in te.split(',') { if part.trim() == "chunked" { ... } }
has_chunked(te) ==
    \E i \in 1..Len(te) : trim(te[i]) = "chunked"

\* The value of `get_ok` when `if !get_ok` is reached.
get_ok(r) ==
    IF r.method = "GET"
    THEN LET ok1 == ~r.content_length
             ok2 == ok1 \/ ~r.expect
         IN  IF IsSome(r.transfer_encoding) /\ has_chunked(Unwrap(r.transfer_encoding))
             THEN FALSE
             ELSE ok2
    ELSE FALSE

\* Mutant of method_rejected: the is_empty() guard is forgotten.
method_rejected_no_empty_guard(allowed_request_methods, r) ==
    r.method \notin allowed_request_methods

\* Rule 2: the condition under which call() returns InvalidRequestMethod.
method_rejected(allowed_request_methods, r) ==
    allowed_request_methods # {} /\ r.method \notin allowed_request_methods

\* Rule 3 with the exception for body-less requests granted to every method.
content_type_rejected_any_method(allowed_content_types, r) ==
    LET ctc == get_content_type_and_charset(r.content_type)
    IN  /\ IsSome(ctc)
        /\ Unwrap(ctc).content_type \notin allowed_content_types
        /\ ~get_ok([r EXCEPT !.method = "GET"])

\* Rule 3: the condition under which call() returns InvalidContentType.
content_type_rejected(allowed_content_types, r) ==
    LET ctc == get_content_type_and_charset(r.content_type)
    IN  /\ IsSome(ctc)
        /\ Unwrap(ctc).content_type \notin allowed_content_types
        /\ ~get_ok(r)

InvalidRequestMethod(r) ==
    SignatureError("InvalidRequestMethod", <<"Unsupported request method '", r.method>>)

InvalidContentType ==
    SignatureError("InvalidContentType", <<"The content-type of the request is unsupported">>)

\* SignatureError::http_status (scratchstack_aws_signature); the tests pin 403 for
\* SignatureDoesNotMatch.
http_status(e) ==
    CASE e.variant \in {"InvalidRequestMethod", "MissingAuthenticationToken"} -> 400
      [] e.variant = "InvalidContentType" -> 415
      [] e.variant = "InternalServiceError" -> 500
      [] OTHER -> 403

\* SignatureError::error_code
error_code(e) ==
    IF e.variant = "InternalServiceError" THEN "InternalFailure" ELSE e.variant

\* XmlError with Receiver kept for statuses above 500 only.
XmlError_receiver_above_500(e) ==
    [Type |-> IF http_status(e) > 500 THEN "Receiver" ELSE "Sender",
     Code |-> error_code(e),
     Message |-> IF e.message = <<>> THEN None ELSE Some(e.message)]

\* impl From<&SignatureError> for XmlError
XmlError(e) ==
    [Type |-> IF http_status(e) >= 500 THEN "Receiver" ELSE "Sender",
     Code |-> error_code(e),
     Message |-> IF e.message = <<>> THEN None ELSE Some(e.message)]

\* Mutant of XmlErrorMapper_map_error: the request id is left out of the document.
XmlErrorMapper_map_error_no_request_id(namespace, e, rid) ==
    IF e.type = "SignatureError"
    THEN Ok([status |-> http_status(e),
             content_type |-> "text/xml; charset=utf-8",
             body |-> [xmlns |-> namespace, Error |-> XmlError(e), RequestId |-> None]])
    ELSE Err(e)

\* map_error answering an error of another type with an InternalFailure document.
XmlErrorMapper_map_error_foreign_as_500(namespace, e, rid) ==
    IF e.type = "SignatureError"
    THEN Ok([status |-> http_status(e),
             content_type |-> "text/xml; charset=utf-8",
             body |-> [xmlns |-> namespace, Error |-> XmlError(e), RequestId |-> rid]])
    ELSE Ok([status |-> 500,
             content_type |-> "text/xml; charset=utf-8",
             body |-> [xmlns |-> namespace,
                       Error |-> [Type |-> "Receiver", Code |-> "InternalFailure", Message |-> None],
                       RequestId |-> rid]])

\* XmlErrorMapper::map_error
XmlErrorMapper_map_error(namespace, e, rid) ==
    IF e.type = "SignatureError"
    THEN Ok([status |-> http_status(e),
             content_type |-> "text/xml; charset=utf-8",
             body |-> [xmlns |-> namespace, Error |-> XmlError(e), RequestId |-> rid]])
    ELSE Err(e)

\* tests::HelloService::call
HelloService(r) ==
    IF IsSome(r.extensions.Principal)
    THEN Ok([status |-> 200, content_type |-> "text/plain",
             body |-> <<"Hello", Unwrap(r.extensions.Principal)>>])
    ELSE Ok([status |-> 401, content_type |-> "text/plain", body |-> <<"Unauthorized">>])

(***************************************************************************)
(* AwsSigV4VerifierService::call, step by step                             *)
(***************************************************************************)
Init ==
    /\ cfg \in Configs
    /\ pc = "idle"
    /\ req = None
    /\ inbound_id = None
    /\ request_id = None
    /\ checks = NoChecks
    /\ calls = NoCalls
    /\ error = None
    /\ verifier = NoVerifier
    /\ mapped = NoMapped
    /\ handled = NoHandled
    /\ result = None
    /\ g_state = Ready(Ok(Unit))
    /\ s_state = Ready(Ok(Unit))
    /\ polls = [g |-> 0, s |-> 0]
    /\ ready = NotPolled
    /\ OthersIdle
    /\ ParkedIdle

\* Mutant of call_self: the method list is moved into the future (mem::take), not cloned.
call_self_takes_methods(self) ==
    [self EXCEPT !.allowed_request_methods = {}]

\* *self after call(&mut self, req): each field is read through clone() (the Copy
\* field signature_options is copied) and none is assigned.
call_self(self) ==
    [region |-> self.region,
     service |-> self.service,
     allowed_request_methods |-> self.allowed_request_methods,
     allowed_content_types |-> self.allowed_content_types,
     signed_header_requirements |-> self.signed_header_requirements,
     signature_options |-> self.signature_options,
     namespace |-> self.namespace]

\* call(): the future is built around the request; nothing runs until it is polled.
Call(r) ==
    /\ pc = "idle"
    /\ pc' = "created"
    /\ req' = Some(r)
    /\ inbound_id' = r.extensions.RequestId
    /\ cfg' = call_self(cfg)
    /\ UNCHANGED <<request_id, checks, calls, error, verifier, mapped, handled,
                   result, readyVars, otherVars>>

\* Mutant of request_id_for: a new id is generated whatever the request carries.
request_id_for_always_new(r, fresh) ==
    fresh

\* The id the async block binds to `request_id`, given what RequestId::new() yields.
request_id_for(r, fresh) ==
    IF IsSome(r.extensions.RequestId) THEN Unwrap(r.extensions.RequestId) ELSE fresh

\* The request after the request-id block: extensions.insert(new_request_id) when absent.
with_request_id(r, fresh) ==
    [r EXCEPT !.extensions.RequestId = Some(request_id_for(r, fresh))]

\* Mutant of policy_checks: the content-type failure does not return.
policy_checks_no_return(allowed_request_methods, allowed_content_types, r) ==
    IF method_rejected(allowed_request_methods, r)
    THEN [checks |-> [method |-> "fail", content_type |-> "unchecked"],
          error |-> Some(InvalidRequestMethod(r)),
          pc |-> "map_error"]
    ELSE [checks |-> [method |-> "pass",
                      content_type |-> IF content_type_rejected(allowed_content_types, r)
                                       THEN "fail" ELSE "pass"],
          error |-> None,
          pc |-> "sigv4_validate_request"]

\* Mutant of policy_checks: rule 3 is evaluated before rule 2.
policy_checks_content_type_first(allowed_request_methods, allowed_content_types, r) ==
    IF content_type_rejected(allowed_content_types, r)
    THEN [checks |-> [method |-> "unchecked", content_type |-> "fail"],
          error |-> Some(InvalidContentType),
          pc |-> "map_error"]
    ELSE IF method_rejected(allowed_request_methods, r)
    THEN [checks |-> [method |-> "fail", content_type |-> "pass"],
          error |-> Some(InvalidRequestMethod(r)),
          pc |-> "map_error"]
    ELSE [checks |-> [method |-> "pass", content_type |-> "pass"],
          error |-> None,
          pc |-> "sigv4_validate_request"]

\* Rule 2 and rule 3 on request r: what each decided, the error to map if one
\* failed, and where the future goes next (each failure returns at once).
policy_checks(allowed_request_methods, allowed_content_types, r) ==
    IF method_rejected(allowed_request_methods, r)
    THEN [checks |-> [method |-> "fail", content_type |-> "unchecked"],
          error |-> Some(InvalidRequestMethod(r)),
          pc |-> "map_error"]
    ELSE IF content_type_rejected(allowed_content_types, r)
    THEN [checks |-> [method |-> "pass", content_type |-> "fail"],
          error |-> Some(InvalidContentType),
          pc |-> "map_error"]
    ELSE [checks |-> [method |-> "pass", content_type |-> "pass"],
          error |-> None,
          pc |-> "sigv4_validate_request"]

\* First poll of the future: request id, rule 2, rule 3, up to the first await.
Start ==
    /\ pc = "created"
    /\ \E fresh \in RequestIds :
         LET r0 == Unwrap(req)
             r == with_request_id(r0, fresh)
             after == policy_checks(cfg.allowed_request_methods, cfg.allowed_content_types, r)
         IN  /\ req' = Some(r)
             /\ request_id' = Some(request_id_for(r0, fresh))
             /\ calls' = [calls EXCEPT !.new_request_id =
                              IF IsSome(r0.extensions.RequestId) THEN 0 ELSE 1]
             /\ checks' = after.checks
             /\ error' = after.error
             /\ pc' = after.pc
    /\ UNCHANGED <<cfg, inbound_id, verifier, mapped, handled, result, readyVars, otherVars>>

\* Err(e) => error_mapper.map_error(e, Some(request_id)).await, for a verifier error e.
VerifierFailed(e) ==
    /\ verifier' = [verifier EXCEPT !.returned = "Err", !.error = Some(e)]
    /\ error' = Some(e)
    /\ pc' = "map_error"
    /\ UNCHANGED <<req>>

\* Mutant of VerifierSucceeded: the principal is not inserted into the extensions.
VerifierSucceeded_no_principal(p, sd) ==
    /\ verifier' = [verifier EXCEPT !.returned = "Ok", !.principal = Some(p),
                                    !.session_data = Some(sd)]
    /\ req' = Some([Unwrap(req) EXCEPT !.extensions.SessionData = Some(sd)])
    /\ error' = None
    /\ pc' = "implementation"

\* Ok((parts, body, principal, session_data)): both are inserted, the request rebuilt.
VerifierSucceeded(p, sd) ==
    /\ verifier' = [verifier EXCEPT !.returned = "Ok", !.principal = Some(p),
                                    !.session_data = Some(sd)]
    /\ req' = Some([Unwrap(req) EXCEPT !.extensions.Principal = Some(p),
                                       !.extensions.SessionData = Some(sd)])
    /\ error' = None
    /\ pc' = "implementation"

\* sigv4_validate_request(...) starts: it rejects the request itself, or asks the
\* key resolver handed to it for the signing key.
ValidateRequest ==
    /\ pc = "sigv4_validate_request"
    /\ \/ /\ \E e \in VerifierRejections : VerifierFailed(e)
          /\ calls' = [calls EXCEPT !.sigv4_validate_request = @ + 1]
       \/ /\ pc' = "get_signing_key"
          /\ calls' = [calls EXCEPT !.sigv4_validate_request = @ + 1,
                                    !.get_signing_key = @ + 1]
          /\ UNCHANGED <<req, error, verifier>>
    /\ UNCHANGED <<cfg, inbound_id, request_id, checks, mapped, handled, result, readyVars, otherVars>>

\* The key resolver answers and sigv4_validate_request returns: the resolver's error
\* unchanged, a signature mismatch, or the verified request with its principal.
GetSigningKeyReturns ==
    /\ pc = "get_signing_key"
    /\ \/ \E e \in GetSigningKeyErrors : VerifierFailed(e)
       \/ VerifierFailed(SignatureDoesNotMatch)
       \/ \E p \in Principals, sd \in SessionDatas : VerifierSucceeded(p, sd)
    /\ UNCHANGED <<cfg, inbound_id, request_id, checks, calls, mapped, handled, result, readyVars, otherVars>>

\* error_mapper.map_error(error, Some(request_id)).await and the return of its value.
MapError ==
    /\ pc = "map_error"
    /\ LET returned == XmlErrorMapper_map_error(cfg.namespace, Unwrap(error), request_id)
       IN  /\ mapped' = [error |-> error, request_id |-> request_id, returned |-> Some(returned)]
           /\ result' = Some(returned)
    /\ calls' = [calls EXCEPT !.map_error = @ + 1]
    /\ pc' = "done"
    /\ UNCHANGED <<cfg, req, inbound_id, request_id, checks, error, verifier, handled, readyVars, otherVars>>

\* Mutant of map_err_into: a handler error is rendered by the error mapper.
map_err_into_mapped(out) ==
    IF out.ok THEN Ok(out.value) ELSE XmlErrorMapper_map_error("service-ns", out.value, None)

\* .map_err(Into::into) on the handler's Result: BoxError into BoxError.
map_err_into(out) ==
    IF out.ok THEN Ok(out.value) ELSE Err(out.value)

\* Mutant of ImplementationOneshot: an error of the handler is sent to the error mapper.
ImplementationOneshot_maps_handler_error ==
    /\ pc = "implementation"
    /\ \/ \E e \in ImplementationErrors :
            /\ handled' = [req |-> req, returned |-> Some(Err(e))]
            /\ error' = Some(e)
            /\ result' = result
            /\ pc' = "map_error"
       \/ /\ handled' = [req |-> req, returned |-> Some(HelloService(Unwrap(req)))]
          /\ error' = error
          /\ result' = Some(map_err_into(HelloService(Unwrap(req))))
          /\ pc' = "done"
    /\ calls' = [calls EXCEPT !.implementation = @ + 1]
    /\ UNCHANGED <<cfg, req, inbound_id, request_id, checks, verifier, mapped, readyVars, otherVars>>

\* implementation.oneshot(req).await.map_err(Into::into): oneshot waits for the
\* handler to be ready, fails with its readiness error, or calls it once.
ImplementationOneshot ==
    /\ pc = "implementation"
    /\ \/ \E e \in ImplementationErrors :
            /\ handled' = [req |-> None, returned |-> Some(Err(e))]
            /\ result' = Some(map_err_into(Err(e)))
            /\ UNCHANGED calls
       \/ \E out \in {HelloService(Unwrap(req))} \cup {Err(e) : e \in ImplementationErrors} :
            /\ handled' = [req |-> req, returned |-> Some(out)]
            /\ result' = Some(map_err_into(out))
            /\ calls' = [calls EXCEPT !.implementation = @ + 1]
    /\ pc' = "done"
    /\ UNCHANGED <<cfg, req, inbound_id, request_id, checks, error, verifier, mapped, readyVars, otherVars>>

\* The caller takes the future's output and drops the future.
Complete ==
    /\ pc = "done"
    /\ pc' = "idle"
    /\ req' = None
    /\ inbound_id' = None
    /\ request_id' = None
    /\ checks' = NoChecks
    /\ calls' = NoCalls
    /\ error' = None
    /\ verifier' = NoVerifier
    /\ mapped' = NoMapped
    /\ handled' = NoHandled
    /\ result' = None
    /\ UNCHANGED <<cfg, readyVars, otherVars>>

Next ==
    \/ \E r \in Requests : Call(r)
    \/ Start
    \/ ValidateRequest
    \/ GetSigningKeyReturns
    \/ MapError
    \/ ImplementationOneshot
    \/ Complete

Spec == Init /\ [][Next]_vars

(***************************************************************************)
(* AwsSigV4VerifierService::poll_ready                                     *)
(***************************************************************************)
\* Mutant of poll_ready: the implementation's readiness is not consulted.
poll_ready_ignores_implementation(g, s) ==
    IF g = Pending
    THEN [result |-> Pending, s_polled |-> FALSE]
    ELSE IF Unwrap(g).ok
    THEN [result |-> Ready(Ok(Unit)), s_polled |-> FALSE]
    ELSE [result |-> Ready(Err(Unwrap(g).value)), s_polled |-> FALSE]

\* Mutant of poll_ready: the key resolver's readiness error is reported as Pending.
poll_ready_hides_resolver_error(g, s) ==
    IF g = Pending \/ ~Unwrap(g).ok
    THEN [result |-> Pending, s_polled |-> FALSE]
    ELSE [result |-> IF s = Pending THEN Pending
                     ELSE IF Unwrap(s).ok THEN Ready(Ok(Unit))
                     ELSE Ready(Err(Unwrap(s).value)),
          s_polled |-> TRUE]

\* The match of poll_ready: g is what get_signing_key.poll_ready(c) returns, s what
\* implementation.poll_ready(c) returns if it is polled.
poll_ready(g, s) ==
    IF g = Pending
    THEN [result |-> Pending, s_polled |-> FALSE]
    ELSE IF Unwrap(g).ok
    THEN [result |-> IF s = Pending THEN Pending
                     ELSE IF Unwrap(s).ok THEN Ready(Ok(Unit))
                     ELSE Ready(Err(Unwrap(s).value)),
          s_polled |-> TRUE]
    ELSE [result |-> Ready(Err(Unwrap(g).value)), s_polled |-> FALSE]

InitReady ==
    /\ cfg = DefaultConfig
    /\ pc = "idle"
    /\ req = None
    /\ inbound_id = None
    /\ request_id = None
    /\ checks = NoChecks
    /\ calls = NoCalls
    /\ error = None
    /\ verifier = NoVerifier
    /\ mapped = NoMapped
    /\ handled = NoHandled
    /\ result = None
    /\ g_state \in GPolls
    /\ s_state \in SPolls
    /\ polls = [g |-> 0, s |-> 0]
    /\ ready = NotPolled
    /\ OthersIdle
    /\ ParkedIdle

\* One poll_ready of the service: the key resolver is polled, the implementation
\* only when the match reaches it.
PollReady ==
    /\ polls.g < MaxPolls
    /\ LET r == poll_ready(g_state, s_state)
       IN  /\ ready' = [polled |-> TRUE, g |-> g_state, s |-> s_state,
                        s_polled |-> r.s_polled, result |-> r.result]
           /\ polls' = [g |-> polls.g + 1,
                        s |-> IF r.s_polled THEN polls.s + 1 ELSE polls.s]
    /\ UNCHANGED <<callVars, otherVars, g_state, s_state>>

\* The key resolver's readiness changes (tests::BadGetCredsService: Pending, then an error).
GetSigningKeyChanges ==
    /\ \E g \in GPolls \ {g_state} : g_state' = g
    /\ UNCHANGED <<callVars, otherVars, s_state, polls, ready>>

\* The implementation's readiness changes.
ImplementationChanges ==
    /\ \E x \in SPolls \ {s_state} : s_state' = x
    /\ UNCHANGED <<callVars, otherVars, g_state, polls, ready>>

NextReady ==
    \/ PollReady
    \/ GetSigningKeyChanges
    \/ ImplementationChanges

SpecReady == InitReady /\ [][NextReady]_vars

(***************************************************************************)
(* Claims about AwsSigV4VerifierService::call                              *)
(***************************************************************************)
\* The future has run its first poll: the request id and both rules are decided.
Started == pc \notin {"idle", "created"}

\* Rule 2 as the configuration states it: a non-empty list without the method.
MethodNotAllowed ==
    /\ cfg.allowed_request_methods # {}
    /\ Unwrap(req).method \notin cfg.allowed_request_methods

\* The error on its way to, or given to, the mapper has this variant.
ErrorIs(variant) == IsSome(error) /\ Unwrap(error).variant = variant

\* C1: whenever allowed_request_methods is non-empty and the request's method is
\* not a member, the request can only go on to the error mapper, which is given an
\* InvalidRequestMethod error whose message names the method, and the downstream
\* handler is never invoked for it; whenever the list is empty, the method check
\* rejects no request.
C1_MethodCheck ==
    Started =>
        /\ MethodNotAllowed =>
             /\ pc \in {"map_error", "done"}
             /\ ErrorIs("InvalidRequestMethod")
             /\ \E i \in 1..Len(Unwrap(error).message) :
                    Unwrap(error).message[i] = Unwrap(req).method
             /\ calls.implementation = 0
             /\ handled = NoHandled
             /\ pc = "done" => calls.map_error = 1 /\ mapped.error = error
        /\ cfg.allowed_request_methods = {} =>
             /\ checks.method = "pass"
             /\ ~ErrorIs("InvalidRequestMethod")

C1_Witness ==
    /\ pc = "done"
    /\ MethodNotAllowed
    /\ calls.map_error = 1
    /\ Unwrap(mapped.error).variant = "InvalidRequestMethod"

\* The key resolver or the external verifier has been invoked, or is about to be.
VerificationReached ==
    \/ pc \in {"sigv4_validate_request", "get_signing_key"}
    \/ calls.sigv4_validate_request > 0
    \/ calls.get_signing_key > 0

\* C2: the key resolver and the external verifier are invoked only after both the
\* method check and the content-type check have passed; a request rejected by either
\* check causes no key-resolver call and no handler call.
C2_ChecksPrecedeVerification ==
    /\ VerificationReached =>
         /\ checks = [method |-> "pass", content_type |-> "pass"]
         /\ ~MethodNotAllowed
    /\ (checks.method = "fail" \/ checks.content_type = "fail") =>
         /\ calls.sigv4_validate_request = 0
         /\ calls.get_signing_key = 0
         /\ calls.implementation = 0
         /\ pc \in {"map_error", "done"}
    /\ Started /\ MethodNotAllowed => calls.get_signing_key = 0

C2_Witness ==
    /\ pc = "done"
    /\ checks.content_type = "fail"
    /\ calls.map_error = 1
    /\ calls.get_signing_key = 0

\* C3: when allowed_content_types is empty every content type is allowed: no
\* request ends in InvalidContentType and every request that passed the method
\* check proceeds to signature verification.
C3_EmptyAllowsAll ==
    Started /\ cfg.allowed_content_types = {} =>
        /\ checks.content_type # "fail"
        /\ ~ErrorIs("InvalidContentType")

\* The base type of the request's Content-Type header is outside a non-empty list.
ContentTypeNotAllowed ==
    /\ IsSome(Unwrap(req).content_type)
    /\ cfg.allowed_content_types # {}
    /\ Unwrap(Unwrap(req).content_type)[1] \notin cfg.allowed_content_types

\* The request has a Transfer-Encoding header with a chunked token.
Chunked ==
    /\ IsSome(Unwrap(req).transfer_encoding)
    /\ \E i \in 1..Len(Unwrap(Unwrap(req).transfer_encoding)) :
           Unwrap(Unwrap(req).transfer_encoding)[i] \in {"chunked", " chunked"}

\* C4: a GET request whose content type is not in a non-empty allowed_content_types
\* list passes the content-type check if and only if it has no Content-Length
\* header, no Expect header and no chunked token in Transfer-Encoding; otherwise it
\* is rejected with InvalidContentType.
C4_GetException ==
    Started /\ checks.method = "pass" /\ Unwrap(req).method = "GET" /\ ContentTypeNotAllowed =>
        LET bodyless == /\ ~Unwrap(req).content_length
                        /\ ~Unwrap(req).expect
                        /\ ~Chunked
        IN  /\ bodyless <=> checks.content_type = "pass"
            /\ ~bodyless => ErrorIs("InvalidContentType")

\* The request id stays in the request's extensions from one step of the future to
\* the next.
RequestIdKept ==
    Started /\ pc' # "idle" => Unwrap(req').extensions.RequestId = Unwrap(req).extensions.RequestId

\* C5: a RequestId the inbound request carries is reused and not overwritten; when
\* it carries none, exactly one new RequestId is generated and attached; the id given
\* to the error mapper equals the id attached to the request; and the attached id is
\* not replaced during the rest of the request's processing.
C5_RequestIdAttachment ==
    /\ [](Started =>
            /\ IsSome(inbound_id) => request_id = inbound_id /\ calls.new_request_id = 0
            /\ inbound_id = None => IsSome(request_id) /\ calls.new_request_id = 1
            /\ Unwrap(req).extensions.RequestId = request_id
            /\ calls.map_error > 0 => mapped.request_id = Unwrap(req).extensions.RequestId
            /\ IsSome(handled.req) => Unwrap(handled.req).extensions.RequestId = request_id)
    /\ [][RequestIdKept]_vars

C5_Witness ==
    /\ pc = "done"
    /\ IsSome(inbound_id)
    /\ calls.map_error = 1
    /\ mapped.request_id = inbound_id

\* C6: Principal and SessionData are in the request's extensions only after the
\* external verifier has returned success for that request, and they are the ones it
\* returned; the downstream handler is invoked only with a request that carries both.
C6_PrincipalAfterVerification ==
    /\ IsSome(req) =>
         /\ IsSome(Unwrap(req).extensions.Principal) =>
              /\ verifier.returned = "Ok"
              /\ Unwrap(req).extensions.Principal = verifier.principal
         /\ IsSome(Unwrap(req).extensions.SessionData) =>
              /\ verifier.returned = "Ok"
              /\ Unwrap(req).extensions.SessionData = verifier.session_data
    /\ calls.implementation > 0 =>
         /\ verifier.returned = "Ok"
         /\ IsSome(handled.req)
         /\ IsSome(Unwrap(handled.req).extensions.Principal)
         /\ IsSome(Unwrap(handled.req).extensions.SessionData)
         /\ Unwrap(handled.req).extensions.Principal = verifier.principal
         /\ Unwrap(handled.req).extensions.SessionData = verifier.session_data

C6_Witness ==
    /\ pc = "done"
    /\ calls.implementation = 1
    /\ Unwrap(handled.req).extensions.Principal = Some("user/other")

\* C7: on verifier success the future's output is exactly the downstream handler's
\* outcome, a response or an error, and the error mapper is not invoked.
C7_HandlerOutcomeUnchanged ==
    pc = "done" /\ verifier.returned = "Ok" =>
        /\ IsSome(result)
        /\ result = handled.returned
        /\ calls.map_error = 0
        /\ mapped = NoMapped

C7_Witness ==
    /\ pc = "done"
    /\ verifier.returned = "Ok"
    /\ calls.implementation = 1
    /\ ~Unwrap(result).ok
    /\ Unwrap(result).value.type = "SignatureError"

\* The method check, the content-type check or the external verifier failed.
PipelineFailed ==
    \/ checks.method = "fail"
    \/ checks.content_type = "fail"
    \/ verifier.returned = "Err"

\* C8: on a failure of the method check, the content-type check or the external
\* verifier, the error mapper is invoked exactly once with that failure (a verifier
\* error unchanged) and the request's RequestId, and the future returns exactly what
\* the mapper returns; for a signature mismatch XmlErrorMapper returns an HTTP 403
\* whose body has Type Sender, Code SignatureDoesNotMatch and a RequestId.
C8_FailureIsMapped ==
    /\ PipelineFailed =>
         /\ pc \in {"map_error", "done"}
         /\ IsSome(error)
         /\ checks.method = "fail" => ErrorIs("InvalidRequestMethod")
         /\ checks.content_type = "fail" => ErrorIs("InvalidContentType")
         /\ verifier.returned = "Err" => error = verifier.error
         /\ calls.implementation = 0
         /\ pc = "map_error" => calls.map_error = 0
         /\ pc = "done" =>
              /\ calls.map_error = 1
              /\ mapped.error = error
              /\ IsSome(mapped.request_id)
              /\ mapped.request_id = Unwrap(req).extensions.RequestId
              /\ IsSome(result)
              /\ result = mapped.returned
    /\ pc = "done" /\ mapped.error = Some(SignatureDoesNotMatch) =>
         /\ Unwrap(result).ok
         /\ Unwrap(result).value.status = 403
         /\ Unwrap(result).value.body.Error.Type = "Sender"
         /\ Unwrap(result).value.body.Error.Code = "SignatureDoesNotMatch"
         /\ Unwrap(result).value.body.RequestId = Unwrap(req).extensions.RequestId
         /\ IsSome(Unwrap(result).value.body.RequestId)

C8_Witness ==
    /\ pc = "done"
    /\ mapped.error = Some(SignatureDoesNotMatch)
    /\ calls.map_error = 1
    /\ Unwrap(result).value.status = 403

(***************************************************************************)
(* Claims about AwsSigV4VerifierService::poll_ready                        *)
(***************************************************************************)
\* C9: poll_ready returns Ready(Ok) if and only if, in that same poll, both the key
\* resolver and the downstream handler report Ready(Ok); if the key resolver reports
\* Pending, or it reports Ready(Ok) and the handler reports Pending, the service
\* reports Pending.
C9_ReadyIffBothReady ==
    ready.polled =>
        /\ ready.result = Ready(Ok(Unit)) <=>
             /\ ready.g = Ready(Ok(Unit))
             /\ ready.s_polled
             /\ ready.s = Ready(Ok(Unit))
        /\ ready.g = Pending => ready.result = Pending
        /\ ready.g = Ready(Ok(Unit)) /\ ready.s = Pending => ready.result = Pending

C9_Witness ==
    /\ ready.polled
    /\ ready.g = Ready(Ok(Unit))
    /\ ready.s = Pending
    /\ ready.result = Pending
    /\ polls.s > 0

\* C10 as stated: whenever the key resolver's poll_ready returns an error, or the
\* handler's poll_ready would return an error, poll_ready returns that same error,
\* whatever the other collaborator's readiness, the key resolver still Pending
\* included.
C10_AnyFailureSurfaces ==
    ready.polled =>
        /\ ready.g = Ready(Err(GetSigningKeyNotReady)) =>
             ready.result = Ready(Err(GetSigningKeyNotReady))
        /\ ready.s = Ready(Err(ImplementationNotReady))
           /\ ready.g # Ready(Err(GetSigningKeyNotReady)) =>
             ready.result = Ready(Err(ImplementationNotReady))

\* C10 amended: a readiness error of the key resolver is returned as the service's
\* readiness error, without polling the handler; a readiness error of the handler is
\* returned as the service's readiness error when the key resolver reported
\* Ready(Ok) in that poll; while the key resolver is Pending the handler is not
\* polled and the service reports Pending, a failed handler included.
C10_FailureSurfacesInOrder ==
    ready.polled =>
        /\ ready.g = Ready(Err(GetSigningKeyNotReady)) =>
             /\ ready.result = Ready(Err(GetSigningKeyNotReady))
             /\ ~ready.s_polled
        /\ ready.g = Ready(Ok(Unit)) /\ ready.s = Ready(Err(ImplementationNotReady)) =>
             /\ ready.result = Ready(Err(ImplementationNotReady))
             /\ ready.s_polled
        /\ ready.g = Pending =>
             /\ ready.result = Pending
             /\ ~ready.s_polled

C10_Witness ==
    /\ ready.polled
    /\ ready.g = Pending
    /\ ready.s = Ready(Err(ImplementationNotReady))
    /\ ready.result = Pending
    /\ polls.g > 1

(***************************************************************************)
(* TlsIncoming::poll_accept                                                *)
(***************************************************************************)
\* io::Error values of TcpListener::poll_accept.
ListenerErrors == {"EMFILE"}

\* io::Error values of a TLS handshake.
HandshakeErrors == {"BadCertificate"}

\* What the listener or a handshake hands over: a stream, or an io::Error.
Stream(source, c, what) == [source |-> source, conn |-> c, what |-> what]

\* What self.listener.poll_accept(cx) can return when c is the next connection.
ListenerPolls(c) ==
    {Pending, Ready(Ok(Stream("listener", c, "TcpStream")))}
        \cup {Ready(Err(Stream("listener", 0, e))) : e \in ListenerErrors}

\* self.acceptor.accept(tcp_stream): a handshake future that has not run yet.
accept(tcp_stream) ==
    [conn |-> tcp_stream.conn, completed |-> FALSE, output |-> Pending]

\* How a poll of the handshake future can go: a future that has not completed is
\* Pending or completes; one that has returned Ready and is polled again panics,
\* stays Pending or returns its output once more (Future::poll leaves it open).
HandshakeOutcomes == {"Pending", "Ok", "Err", "Panic", "Again"}

Applicable(fut, o) ==
    IF fut.completed THEN o \in {"Panic", "Pending", "Again"} ELSE o \in {"Pending", "Ok", "Err"}

\* accept.as_mut().poll(cx) on the handshake future fut, going as o says.
poll_handshake(fut, o) ==
    IF fut.completed
    THEN [fut |-> fut,
          poll |-> IF o = "Again" THEN fut.output ELSE Pending,
          panicked |-> o = "Panic"]
    ELSE IF o = "Pending"
    THEN [fut |-> fut, poll |-> Pending, panicked |-> FALSE]
    ELSE LET out == IF o = "Ok"
                    THEN Ok(Stream("handshake", fut.conn, "TlsStream"))
                    ELSE Err(Stream("handshake", fut.conn, CHOOSE e \in HandshakeErrors : TRUE))
         IN  [fut |-> [fut EXCEPT !.completed = TRUE, !.output = Ready(out)],
              poll |-> Ready(out),
              panicked |-> FALSE]

\* poll_accept returning Pending right after it has stored a new handshake.
poll_accept_defers_handshake_poll(slot, l, o) ==
    IF slot = None /\ l = Pending
    THEN [slot |-> None, returned |-> Pending, listener_polled |-> TRUE,
          handshake_started |-> FALSE, handshake_polled |-> FALSE, repolled |-> FALSE,
          panicked |-> FALSE]
    ELSE IF slot = None /\ ~Unwrap(l).ok
    THEN [slot |-> None, returned |-> Ready(Some(Err(Unwrap(l).value))),
          listener_polled |-> TRUE, handshake_started |-> FALSE,
          handshake_polled |-> FALSE, repolled |-> FALSE, panicked |-> FALSE]
    ELSE IF slot = None
    THEN [slot |-> Some(accept(Unwrap(l).value)), returned |-> Pending,
          listener_polled |-> TRUE, handshake_started |-> TRUE,
          handshake_polled |-> FALSE, repolled |-> FALSE, panicked |-> FALSE]
    ELSE LET fut == Unwrap(slot)
             hp == poll_handshake(fut, o)
         IN  [slot |-> Some(hp.fut),
              returned |-> IF hp.poll = Pending THEN Pending ELSE Ready(Some(Unwrap(hp.poll))),
              listener_polled |-> FALSE,
              handshake_started |-> FALSE,
              handshake_polled |-> TRUE,
              repolled |-> fut.completed,
              panicked |-> hp.panicked]

\* poll_accept polling the listener in every call and putting a connection it
\* accepts in the slot, whatever the slot holds.
poll_accept_always_polls_listener(slot, l, o) ==
    IF l = Pending /\ slot = None
    THEN [slot |-> None, returned |-> Pending, listener_polled |-> TRUE,
          handshake_started |-> FALSE, handshake_polled |-> FALSE, repolled |-> FALSE,
          panicked |-> FALSE]
    ELSE IF l # Pending /\ ~Unwrap(l).ok
    THEN [slot |-> slot, returned |-> Ready(Some(Err(Unwrap(l).value))),
          listener_polled |-> TRUE, handshake_started |-> FALSE,
          handshake_polled |-> FALSE, repolled |-> FALSE, panicked |-> FALSE]
    ELSE LET fut == IF l # Pending THEN accept(Unwrap(l).value) ELSE Unwrap(slot)
             hp == poll_handshake(fut, IF fut.completed \/ o \in {"Pending", "Ok", "Err"}
                                       THEN o ELSE "Pending")
         IN  [slot |-> Some(hp.fut),
              returned |-> IF hp.poll = Pending THEN Pending ELSE Ready(Some(Unwrap(hp.poll))),
              listener_polled |-> TRUE,
              handshake_started |-> l # Pending,
              handshake_polled |-> TRUE,
              repolled |-> fut.completed,
              panicked |-> hp.panicked]

\* poll_accept with a listener error parked in the slot as a finished accept.
poll_accept_keeps_listener_error(slot, l, o) ==
    IF slot = None /\ l = Pending
    THEN [slot |-> None, returned |-> Pending, listener_polled |-> TRUE,
          handshake_started |-> FALSE, handshake_polled |-> FALSE, repolled |-> FALSE,
          panicked |-> FALSE]
    ELSE IF slot = None /\ ~Unwrap(l).ok
    THEN [slot |-> Some([conn |-> 0, completed |-> TRUE, output |-> Ready(Err(Unwrap(l).value))]),
          returned |-> Ready(Some(Err(Unwrap(l).value))),
          listener_polled |-> TRUE, handshake_started |-> FALSE,
          handshake_polled |-> FALSE, repolled |-> FALSE, panicked |-> FALSE]
    ELSE LET fut == IF slot = None THEN accept(Unwrap(l).value) ELSE Unwrap(slot)
             hp == poll_handshake(fut, o)
         IN  [slot |-> Some(hp.fut),
              returned |-> IF hp.poll = Pending THEN Pending ELSE Ready(Some(Unwrap(hp.poll))),
              listener_polled |-> slot = None,
              handshake_started |-> slot = None,
              handshake_polled |-> TRUE,
              repolled |-> fut.completed,
              panicked |-> hp.panicked]

\* The body of poll_accept: slot is tls_stream_accept at entry, l what the listener
\* returns if polled, o how the poll of the handshake goes if it is reached.
poll_accept(slot, l, o) ==
    IF slot = None /\ l = Pending
    THEN [slot |-> None, returned |-> Pending, listener_polled |-> TRUE,
          handshake_started |-> FALSE, handshake_polled |-> FALSE, repolled |-> FALSE,
          panicked |-> FALSE]
    ELSE IF slot = None /\ ~Unwrap(l).ok
    THEN [slot |-> None, returned |-> Ready(Some(Err(Unwrap(l).value))),
          listener_polled |-> TRUE, handshake_started |-> FALSE,
          handshake_polled |-> FALSE, repolled |-> FALSE, panicked |-> FALSE]
    ELSE LET fut == IF slot = None THEN accept(Unwrap(l).value) ELSE Unwrap(slot)
             hp == poll_handshake(fut, o)
         IN  [slot |-> Some(hp.fut),
              returned |-> IF hp.poll = Pending THEN Pending ELSE Ready(Some(Unwrap(hp.poll))),
              listener_polled |-> slot = None,
              handshake_started |-> slot = None,
              handshake_polled |-> TRUE,
              repolled |-> fut.completed,
              panicked |-> hp.panicked]

InitTls ==
    /\ CallIdle
    /\ ReadyIdle
    /\ OthersIdle

\* One call of poll_accept by the server that owns the TlsIncoming.
PollAccept ==
    /\ ~tls_panicked
    /\ tls_polls < MaxAcceptPolls
    /\ \E l \in ListenerPolls(tls_accepted + 1), o \in HandshakeOutcomes :
         /\ Applicable(IF tls_stream_accept = None
                       THEN accept(Stream("listener", tls_accepted + 1, "TcpStream"))
                       ELSE Unwrap(tls_stream_accept), o)
         /\ LET r == poll_accept(tls_stream_accept, l, o)
            IN  /\ tls_stream_accept' = r.slot
                /\ tls_accepted' = IF r.handshake_started THEN tls_accepted + 1 ELSE tls_accepted
                /\ tls_items' = IF r.returned = Pending
                                THEN tls_items
                                ELSE Append(tls_items, Unwrap(Unwrap(r.returned)))
                /\ tls_last' = [listener_polled |-> r.listener_polled,
                                handshake_started |-> r.handshake_started,
                                handshake_polled |-> r.handshake_polled,
                                repolled |-> r.repolled,
                                returned |-> r.returned]
                /\ tls_panicked' = r.panicked
    /\ tls_polls' = tls_polls + 1
    /\ UNCHANGED nonTlsVars

NextTls ==
    PollAccept

SpecTls == InitTls /\ [][NextTls]_vars

(***************************************************************************)
(* Claims about TlsIncoming                                                *)
(***************************************************************************)
\* The last poll_accept returned the result of a handshake it saw complete.
HandshakeResultYielded ==
    /\ tls_last.handshake_polled
    /\ ~tls_last.repolled
    /\ tls_last.returned # Pending

\* A listener error was yielded by a poll_accept before the last one.
ListenerErrorBeforeLastPoll ==
    \E i \in 1..Len(tls_items) :
        /\ tls_items[i].value.source = "listener"
        /\ (i < Len(tls_items) \/ tls_last.returned = Pending)

\* The last poll_accept yielded a listener error.
ListenerErrorYielded ==
    /\ tls_last.listener_polled
    /\ ~tls_last.handshake_polled
    /\ tls_last.returned # Pending

\* C11: once a handshake has completed and its result has been yielded, the
\* in-progress slot is empty, and no poll_accept polls a handshake that has
\* already completed: every poll after a completion polls the listener.
C11_SlotClearedAfterHandshake ==
    /\ HandshakeResultYielded => tls_stream_accept = None
    /\ ~tls_last.repolled
    /\ ~tls_panicked

MSG_ACCESS_KEY_PROVIDED_DOES_NOT_EXIST ==
    "The AWS access key provided does not exist in our records."

\* access_key.len() < 20
MinAccessKeyLen == 20

\* &access_key[..4]
AccessPrefixLen == 4

\* A two-byte character of a String: U+00E9 is 0xC3 0xA9 in UTF-8.
E_ACUTE == "U+00E9"

\* Strings are sequences of characters; str::len counts their UTF-8 bytes.
utf8_len(ch) == IF ch = E_ACUTE THEN 2 ELSE 1

RECURSIVE str_len(_)
str_len(str) ==
    IF str = <<>> THEN 0 ELSE utf8_len(Head(str)) + str_len(Tail(str))

\* &str[..n]: the characters of the first n bytes, or None where byte n is not
\* a character boundary (the slice panics).
slice_to(str, n) ==
    LET ends == {k \in 0..Len(str) : str_len(SubSeq(str, 1, k)) = n}
    IN  IF ends = {} THEN None ELSE Some(SubSeq(str, 1, CHOOSE k \in ends : TRUE))

Repeat(ch, n) == [i \in 1..n |-> ch]

AKIA == <<"A", "K", "I", "A">>

\* Access keys of 10, 19, 20 and 24 ASCII characters, one of 10 two-byte characters
\* and one whose fourth character is two bytes wide.
AccessKeys ==
    {AKIA \o Repeat("X", 6),
     AKIA \o Repeat("X", 15),
     AKIA \o Repeat("X", 16),
     <<"A", "B", "C", "D">> \o Repeat("X", 20),
     Repeat(E_ACUTE, 10),
     <<"A", "K", "I", E_ACUTE>> \o Repeat("X", 16)}

Regions == {"us-east-1", "eu-west-2"}

\* GetSigningKeyRequest
GetSigningKeyRequests ==
    [access_key : AccessKeys, region : Regions, service : {"service"},
     request_date : {"20150830"}]

\* GetSigningKeyFromDatabase::new(pool, partition, region, service)
GskSelf == [partition |-> "aws", region |-> "us-east-1", service |-> "service"]

\* sqlx::Error
SqlxError(variant, text) == [type |-> "Foreign", variant |-> variant, message |-> <<text>>]

RowNotFound ==
    SqlxError("RowNotFound", "no rows returned by a query that expected to return at least one row")

\* The other errors the pool and the driver return.
DatabaseErrors ==
    {SqlxError("PoolTimedOut", "pool timed out while waiting for an open connection"),
     SqlxError("Io", "Connection refused (os error 111)")}

\* The rows of iam_user_credential JOIN iam_user the query can return.
Rows ==
    [user_id : {"AIDAEXAMPLE"}, account_id : {"123456789012", "12"}, path : {"/"},
     user_name : {"alice"}, secret_key : {"wJalrXUtnFEMI"}]

InvalidClientTokenId(message) == SignatureError("InvalidClientTokenId", <<message>>)

\* internal_error(e): the error is kept inside the InternalServiceError, whose
\* Display is that of the error it holds.
internal_error(e) == SignatureError("InternalServiceError", e.message)

\* User::new(partition, account_id, path, user_name): an account id is 12 digits.
User_new(partition, account_id, path, user_name) ==
    IF account_id = "123456789012"
    THEN Ok([partition |-> partition, account_id |-> account_id, path |-> path,
             user_name |-> user_name])
    ELSE Err([type |-> "Foreign", variant |-> "PrincipalError",
              message |-> <<"Invalid account id">>])

\* Arn::from(&user).to_string()
Arn_to_string(user) ==
    <<"arn", user.partition, "iam", "", user.account_id, "user", user.path, user.user_name>>

SessionValue_String(x) == [String |-> x]

SessionValue_Bool(b) == [Bool |-> b]

SessionData_new == [k \in {} |-> None]

SessionData_insert(sd, key, value) ==
    [k \in (DOMAIN sd) \cup {key} |-> IF k = key THEN value ELSE sd[k]]

\* The session data with the insert of aws:RequestedRegion left out.
session_data_for_without_region(r, row, user_arn) ==
    LET s0 == SessionData_new
        s1 == SessionData_insert(s0, "aws:username", SessionValue_String(row.user_name))
        s2 == SessionData_insert(s1, "aws:userid", SessionValue_String(row.user_id))
        s3 == SessionData_insert(s2, "aws:PrincipalType", SessionValue_String("User"))
        s4 == SessionData_insert(s3, "aws:MultiFactorAuthPresent", SessionValue_Bool(FALSE))
        s5 == SessionData_insert(s4, "aws:PrincipalAccount", SessionValue_String(row.account_id))
        s6 == SessionData_insert(s5, "aws:PrincipalArn", SessionValue_String(user_arn))
        s7 == SessionData_insert(s6, "aws:PrincipalIsAWSService", SessionValue_Bool(FALSE))
        s9 == SessionData_insert(s7, "aws:ViaAWSService", SessionValue_Bool(FALSE))
    IN  s9

\* The session data call builds for the request r and the row found.
session_data_for(r, row, user_arn) ==
    LET s0 == SessionData_new
        s1 == SessionData_insert(s0, "aws:username", SessionValue_String(row.user_name))
        s2 == SessionData_insert(s1, "aws:userid", SessionValue_String(row.user_id))
        s3 == SessionData_insert(s2, "aws:PrincipalType", SessionValue_String("User"))
        s4 == SessionData_insert(s3, "aws:MultiFactorAuthPresent", SessionValue_Bool(FALSE))
        s5 == SessionData_insert(s4, "aws:PrincipalAccount", SessionValue_String(row.account_id))
        s6 == SessionData_insert(s5, "aws:PrincipalArn", SessionValue_String(user_arn))
        s7 == SessionData_insert(s6, "aws:PrincipalIsAWSService", SessionValue_Bool(FALSE))
        s8 == SessionData_insert(s7, "aws:RequestedRegion", SessionValue_String(r.region))
        s9 == SessionData_insert(s8, "aws:ViaAWSService", SessionValue_Bool(FALSE))
    IN  s9

\* KSecretKey::from_str(secret).to_ksigning(request_date, region, service)
to_ksigning(secret, r) == <<"KSigning", secret, r.request_date, r.region, r.service>>

\* What call returns when pool.begin() fails with e: the ? hands e on as it is.
begin_error(e) == e

\* What call returns when fetch_one fails with e.
fetch_one_error(e) ==
    IF e = RowNotFound
    THEN InvalidClientTokenId(MSG_ACCESS_KEY_PROVIDED_DOES_NOT_EXIST)
    ELSE internal_error(e)

\* What call returns when the database operation op fails with e.
database_error(op, e) == IF op = "begin" THEN begin_error(e) ELSE fetch_one_error(e)

\* What call returns for the row found.
response_for(r, row) ==
    LET user == User_new(GskSelf.partition, row.account_id, row.path, row.user_name)
    IN  IF ~user.ok
        THEN Err(user.value)
        ELSE Ok([principal |-> Arn_to_string(user.value),
                 session_data |-> session_data_for(r, row, Arn_to_string(user.value)),
                 signing_key |-> to_ksigning(row.secret_key, r)])

(***************************************************************************)
(* Binder                                                                  *)
(***************************************************************************)
\* sqlx::any::AnyKind
AnyKinds == {"Postgres", "MySql", "Sqlite", "Mssql"}

Digits == <<"0", "1", "2", "3", "4", "5", "6", "7", "8", "9">>

\* format!("{}", id) of a usize: its decimal digits, most significant first.
RECURSIVE to_string(_)
to_string(n) ==
    IF n < 10 THEN <<Digits[n + 1]>> ELSE to_string(n \div 10) \o <<Digits[(n % 10) + 1]>>

\* Binder::new(kind)
Binder_new(kind) == [kind |-> kind, next_id |-> 1]

\* next_param_id giving MySql the "@p" placeholders its documentation speaks of.
next_param_id_mysql_at_p(binder) ==
    LET id == binder.next_id
    IN  [binder |-> [binder EXCEPT !.next_id = binder.next_id + 1],
         returned |-> CASE binder.kind = "Postgres" -> <<"$">> \o to_string(id)
                        [] binder.kind \in {"Mssql", "MySql"} -> <<"@", "p">> \o to_string(id)
                        [] OTHER -> <<"?">>]

\* next_param_id that leaves next_id alone when the placeholder is "?".
next_param_id_counting_numbered_only(binder) ==
    LET id == binder.next_id
    IN  [binder |-> IF binder.kind \in {"Postgres", "Mssql"}
                    THEN [binder EXCEPT !.next_id = binder.next_id + 1]
                    ELSE binder,
         returned |-> CASE binder.kind = "Postgres" -> <<"$">> \o to_string(id)
                        [] binder.kind = "Mssql" -> <<"@", "p">> \o to_string(id)
                        [] OTHER -> <<"?">>]

\* next_param_id numbering from the incremented next_id.
next_param_id_after_increment(binder) ==
    LET id == binder.next_id + 1
    IN  [binder |-> [binder EXCEPT !.next_id = binder.next_id + 1],
         returned |-> CASE binder.kind = "Postgres" -> <<"$">> \o to_string(id)
                        [] binder.kind = "Mssql" -> <<"@", "p">> \o to_string(id)
                        [] OTHER -> <<"?">>]

\* Binder::next_param_id(&mut self): the Binder afterwards and the String returned.
next_param_id(binder) ==
    LET id == binder.next_id
    IN  [binder |-> [binder EXCEPT !.next_id = binder.next_id + 1],
         returned |-> CASE binder.kind = "Postgres" -> <<"$">> \o to_string(id)
                        [] binder.kind = "Mssql" -> <<"@", "p">> \o to_string(id)
                        [] OTHER -> <<"?">>]

\* A resolver built over a pool of any kind; nothing else has run.
InitGsk ==
    /\ CallIdle
    /\ ReadyIdle
    /\ TlsNew
    /\ BinderIdle
    /\ RidIdle
    /\ MapperIdle
    /\ SpawnIdle
    /\ gsk_kind \in AnyKinds
    /\ gsk_pc = "idle"
    /\ gsk_req = None
    /\ gsk_ops = <<>>
    /\ gsk_failure = None
    /\ gsk_result = None
    /\ gsk_panicked = FALSE

\* call(req) up to its first await: the length test on the access key.
GskCall(r) ==
    /\ gsk_pc = "idle"
    /\ gsk_req' = Some(r)
    /\ IF str_len(r.access_key) < MinAccessKeyLen
       THEN /\ gsk_result' = Some(Err(InvalidClientTokenId(MSG_ACCESS_KEY_PROVIDED_DOES_NOT_EXIST)))
            /\ gsk_pc' = "done"
       ELSE /\ gsk_result' = gsk_result
            /\ gsk_pc' = "begin"
    /\ UNCHANGED <<gsk_kind, gsk_ops, gsk_failure, gsk_panicked, nonGskVars>>

\* pool.begin().await?, then the match on the first four bytes of the key.
GskBegin ==
    /\ gsk_pc = "begin"
    /\ gsk_ops' = Append(gsk_ops, [op |-> "begin", param |-> None, bound |-> None])
    /\ \E out \in {Ok([type |-> "Transaction"])} \cup {Err(e) : e \in DatabaseErrors} :
         IF ~out.ok
         THEN /\ gsk_failure' = Some([op |-> "begin", error |-> out.value])
              /\ gsk_result' = Some(Err(database_error("begin", out.value)))
              /\ gsk_pc' = "done"
              /\ UNCHANGED gsk_panicked
         ELSE LET access_prefix == slice_to(Unwrap(gsk_req).access_key, AccessPrefixLen)
              IN  IF access_prefix = None
                  THEN /\ gsk_panicked' = TRUE
                       /\ gsk_pc' = "done"
                       /\ UNCHANGED <<gsk_failure, gsk_result>>
                  ELSE IF Unwrap(access_prefix) = AKIA
                  THEN /\ gsk_pc' = "fetch_one"
                       /\ UNCHANGED <<gsk_failure, gsk_result, gsk_panicked>>
                  ELSE /\ gsk_result' =
                              Some(Err(InvalidClientTokenId(MSG_ACCESS_KEY_PROVIDED_DOES_NOT_EXIST)))
                       /\ gsk_pc' = "done"
                       /\ UNCHANGED <<gsk_failure, gsk_panicked>>
    /\ UNCHANGED <<gsk_kind, gsk_req, nonGskVars>>

\* query_as(&sql).bind(access_key).fetch_one(&mut db).await and the rest of the
\* "AKIA" arm.
GskFetchOne ==
    /\ gsk_pc = "fetch_one"
    /\ LET binder == Binder_new(gsk_kind)
           access_key_param_id == next_param_id(binder).returned
       IN  gsk_ops' = Append(gsk_ops, [op |-> "fetch_one", param |-> Some(access_key_param_id),
                                       bound |-> Some(Unwrap(gsk_req).access_key)])
    /\ \E out \in {Ok(row) : row \in Rows} \cup {Err(e) : e \in DatabaseErrors \cup {RowNotFound}} :
         IF ~out.ok
         THEN /\ gsk_failure' = Some([op |-> "fetch_one", error |-> out.value])
              /\ gsk_result' = Some(Err(database_error("fetch_one", out.value)))
         ELSE /\ gsk_failure' = gsk_failure
              /\ gsk_result' = Some(response_for(Unwrap(gsk_req), out.value))
    /\ gsk_pc' = "done"
    /\ UNCHANGED <<gsk_kind, gsk_req, gsk_panicked, nonGskVars>>

\* The future has returned (or panicked) and is dropped; the service takes the next call.
GskComplete ==
    /\ gsk_pc = "done"
    /\ gsk_pc' = "idle"
    /\ gsk_req' = None
    /\ gsk_ops' = <<>>
    /\ gsk_failure' = None
    /\ gsk_result' = None
    /\ gsk_panicked' = FALSE
    /\ UNCHANGED <<gsk_kind, nonGskVars>>

NextGsk ==
    \/ \E r \in GetSigningKeyRequests : GskCall(r)
    \/ GskBegin
    \/ GskFetchOne
    \/ GskComplete

SpecGsk == InitGsk /\ [][NextGsk]_vars

(***************************************************************************)
(* Claims about GetSigningKeyFromDatabase                                  *)
(***************************************************************************)
UnknownAccessKey == Some(Err(InvalidClientTokenId(MSG_ACCESS_KEY_PROVIDED_DOES_NOT_EXIST)))

GskCalled == gsk_req # None

GskReturned == gsk_pc = "done" /\ ~gsk_panicked

\* The key of the call has fewer than 20 characters.
TooShortKey == GskCalled /\ Len(Unwrap(gsk_req).access_key) < MinAccessKeyLen

\* The key of the call has at least 20 characters, the first four not "AKIA".
UnsupportedPrefix ==
    /\ GskCalled
    /\ Len(Unwrap(gsk_req).access_key) >= MinAccessKeyLen
    /\ SubSeq(Unwrap(gsk_req).access_key, 1, AccessPrefixLen) # AKIA

\* The query for an "AKIA" key found no row.
NoMatchingRow == gsk_failure = Some([op |-> "fetch_one", error |-> RowNotFound])

\* A database step failed with something other than row-not-found.
DatabaseFailed == gsk_failure # None /\ Unwrap(gsk_failure).error # RowNotFound

\* C13: a call with a key of fewer than 20 characters performs no database
\* operation and returns InvalidClientTokenId with the generic message.
C13_ShortKeyNoDatabase ==
    TooShortKey =>
        /\ gsk_ops = <<>>
        /\ gsk_pc = "done"
        /\ gsk_result = UnknownAccessKey

\* C14: a call with a key of at least 20 characters and an unsupported prefix
\* performs no database operation and never returns anything but
\* InvalidClientTokenId with the generic message.
C14_UnsupportedPrefixNoDatabase ==
    UnsupportedPrefix =>
        /\ gsk_ops = <<>>
        /\ ~gsk_panicked
        /\ gsk_pc = "done" => gsk_result = UnknownAccessKey

\* C15: every error call returns is a SignatureError, InvalidClientTokenId or
\* InternalServiceError, and it is InternalServiceError when a database step
\* failed with something other than row-not-found.
C15_DatabaseErrorsCollapsed ==
    (GskReturned /\ ~Unwrap(gsk_result).ok) =>
        /\ Unwrap(gsk_result).value.type = "SignatureError"
        /\ Unwrap(gsk_result).value.variant \in {"InvalidClientTokenId", "InternalServiceError"}
        /\ DatabaseFailed => Unwrap(gsk_result).value.variant = "InternalServiceError"

\* C16: what call returns for a too-short key, for an unsupported prefix and for
\* an "AKIA" key without a row is one and the same error value.
C16_UnknownKeyUndifferentiated ==
    (GskReturned /\ (TooShortKey \/ UnsupportedPrefix \/ NoMatchingRow)) =>
        gsk_result = UnknownAccessKey

SessionDataReturned == GskReturned /\ Unwrap(gsk_result).ok

\* C17 as stated: the session data returned has exactly these eight keys.
C17_EightKeys ==
    SessionDataReturned =>
        DOMAIN Unwrap(gsk_result).value.session_data =
            {"aws:username", "aws:userid", "aws:PrincipalType", "aws:MultiFactorAuthPresent",
             "aws:PrincipalAccount", "aws:PrincipalArn", "aws:RequestedRegion",
             "aws:ViaAWSService"}

\* C17: the session data returned for a matching row has exactly nine keys: the
\* eight of the claim, with the values it names and the region of the request,
\* and aws:PrincipalIsAWSService = false.
C17_NineKeys ==
    SessionDataReturned =>
        LET sd == Unwrap(gsk_result).value.session_data
        IN  /\ DOMAIN sd =
                  {"aws:username", "aws:userid", "aws:PrincipalType",
                   "aws:MultiFactorAuthPresent", "aws:PrincipalAccount", "aws:PrincipalArn",
                   "aws:PrincipalIsAWSService", "aws:RequestedRegion", "aws:ViaAWSService"}
            /\ Cardinality(DOMAIN sd) = 9
            /\ sd["aws:PrincipalType"] = SessionValue_String("User")
            /\ sd["aws:MultiFactorAuthPresent"] = SessionValue_Bool(FALSE)
            /\ sd["aws:PrincipalIsAWSService"] = SessionValue_Bool(FALSE)
            /\ sd["aws:ViaAWSService"] = SessionValue_Bool(FALSE)
            /\ sd["aws:RequestedRegion"] = SessionValue_String(Unwrap(gsk_req).region)
            /\ sd["aws:PrincipalArn"] = SessionValue_String(Unwrap(gsk_result).value.principal)
            /\ \E row \in Rows :
                 /\ sd["aws:username"] = SessionValue_String(row.user_name)
                 /\ sd["aws:userid"] = SessionValue_String(row.user_id)
                 /\ sd["aws:PrincipalAccount"] = SessionValue_String(row.account_id)

C17_Witness ==
    /\ SessionDataReturned
    /\ Len(gsk_ops) = 2
    /\ gsk_ops[2].op = "fetch_one"
    /\ Unwrap(gsk_req).region # GskSelf.region

\* C18: when a database step fails, what call returns and the response the error
\* mapper makes of it are those any other database error would have given.
C18_NoBackendDetail ==
    (GskReturned /\ DatabaseFailed) =>
        \A e \in DatabaseErrors :
            /\ gsk_result = Some(Err(database_error(Unwrap(gsk_failure).op, e)))
            /\ XmlErrorMapper_map_error("https://sts.amazonaws.com/doc/2011-06-15/",
                                        Unwrap(gsk_result).value, None)
                 = XmlErrorMapper_map_error("https://sts.amazonaws.com/doc/2011-06-15/",
                                            database_error(Unwrap(gsk_failure).op, e), None)

(***************************************************************************)
(* Binder as a state machine                                               *)
(***************************************************************************)
InitBinder ==
    /\ CallIdle
    /\ ReadyIdle
    /\ OthersIdle

\* Binder::new(kind) for the b-th Binder.
BinderNew(b, kind) ==
    /\ binders[b] = None
    /\ binders' = [binders EXCEPT ![b] = Some(Binder_new(kind))]
    /\ UNCHANGED <<binder_ids, nonBinderVars>>

\* binder.next_param_id() on the b-th Binder.
NextParamId(b) ==
    /\ binders[b] # None
    /\ Len(binder_ids[b]) < MaxParams
    /\ LET r == next_param_id(Unwrap(binders[b]))
       IN  /\ binders' = [binders EXCEPT ![b] = Some(r.binder)]
           /\ binder_ids' = [binder_ids EXCEPT ![b] = Append(@, r.returned)]
    /\ UNCHANGED nonBinderVars

NextBinder ==
    \/ \E b \in 1..MaxBinders, kind \in AnyKinds : BinderNew(b, kind)
    \/ \E b \in 1..MaxBinders : NextParamId(b)

SpecBinder == InitBinder /\ [][NextBinder]_vars

\* The number a string of decimal digits without a leading zero stands for, or
\* None if it is no such string.
RECURSIVE parse_digits(_)
parse_digits(str) ==
    IF str = <<>>
    THEN 0
    ELSE 10 * parse_digits(SubSeq(str, 1, Len(str) - 1))
           + (CHOOSE d \in 0..9 : Digits[d + 1] = str[Len(str)])

parse_decimal(str) ==
    IF /\ str # <<>>
       /\ \A i \in 1..Len(str) : \E d \in 0..9 : Digits[d + 1] = str[i]
       /\ (Len(str) > 1 => str[1] # "0")
    THEN Some(parse_digits(str))
    ELSE None

Timestamps == {-1700000000, -256, -1, 0, 1, 255, 1700000000, 2147483647}

\* random: u64 values.
Randoms == {0, 1, 15, 16, 255, 256, 305419896, 2147483647}

\* The k-th byte from the least significant end of the 8-byte two's complement
\* form of n, for |n| < 2^31: bytes 4..7 are the sign extension.
byte_of(n, k) ==
    IF k < 4 THEN (n \div (256 ^ k)) % 256 ELSE IF n < 0 THEN 255 ELSE 0

\* i64::to_be_bytes and u64::to_be_bytes
to_be_bytes(n) == [i \in 1..8 |-> byte_of(n, 8 - i)]

\* Uuid::from_bytes
Uuid_from_bytes(bytes) == [bytes |-> bytes]

\* RequestId::from_timestamp_and_random
from_timestamp_and_random(unix_timestamp, random) ==
    [id |-> Uuid_from_bytes(to_be_bytes(unix_timestamp) \o to_be_bytes(random))]

LowerHex == <<"0", "1", "2", "3", "4", "5", "6", "7", "8", "9", "a", "b", "c", "d", "e", "f">>

UpperHex == <<"0", "1", "2", "3", "4", "5", "6", "7", "8", "9", "A", "B", "C", "D", "E", "F">>

\* A byte written without its leading zero.
hex_without_padding(b) ==
    IF b < 16 THEN <<LowerHex[b + 1]>> ELSE <<LowerHex[(b \div 16) + 1], LowerHex[(b % 16) + 1]>>

\* A byte as two lower-case hexadecimal digits.
hex(b) == <<LowerHex[(b \div 16) + 1], LowerHex[(b % 16) + 1]>>

RECURSIVE hex_of_bytes(_)
hex_of_bytes(bytes) ==
    IF bytes = <<>> THEN <<>> ELSE hex(Head(bytes)) \o hex_of_bytes(Tail(bytes))

\* impl Display for Uuid: hyphenated, lower case, 8-4-4-4-12.
Uuid_to_string(uuid) ==
    hex_of_bytes(SubSeq(uuid.bytes, 1, 4)) \o <<"-">>
        \o hex_of_bytes(SubSeq(uuid.bytes, 5, 6)) \o <<"-">>
        \o hex_of_bytes(SubSeq(uuid.bytes, 7, 8)) \o <<"-">>
        \o hex_of_bytes(SubSeq(uuid.bytes, 9, 10)) \o <<"-">>
        \o hex_of_bytes(SubSeq(uuid.bytes, 11, 16))

\* impl Display for RequestId
RequestId_to_string(request) == Uuid_to_string(request.id)

IsHexDigit(ch) == \E d \in 1..16 : LowerHex[d] = ch \/ UpperHex[d] = ch

HexValue(ch) == (CHOOSE d \in 1..16 : LowerHex[d] = ch \/ UpperHex[d] = ch) - 1

\* The text between the braces or after "urn:uuid:", if it has either.
strip_wrapping(str) ==
    IF Len(str) >= 2 /\ str[1] = "{" /\ str[Len(str)] = "}"
    THEN SubSeq(str, 2, Len(str) - 1)
    ELSE IF Len(str) >= 9 /\ SubSeq(str, 1, 9) = <<"u", "r", "n", ":", "u", "u", "i", "d", ":">>
    THEN SubSeq(str, 10, Len(str))
    ELSE str

\* The 32 digits of the hyphenated form 8-4-4-4-12, or of the simple form.
strip_hyphens(str) ==
    IF Len(str) = 36 /\ \A i \in {9, 14, 19, 24} : str[i] = "-"
    THEN SubSeq(str, 1, 8) \o SubSeq(str, 10, 13) \o SubSeq(str, 15, 18)
            \o SubSeq(str, 20, 23) \o SubSeq(str, 25, 36)
    ELSE str

UuidError == [type |-> "uuid::Error"]

\* Uuid::parse_str
Uuid_parse_str(str) ==
    LET digits == strip_hyphens(strip_wrapping(str))
    IN  IF Len(digits) = 32 /\ \A i \in 1..32 : IsHexDigit(digits[i])
        THEN Ok(Uuid_from_bytes(
                 [i \in 1..16 |-> 16 * HexValue(digits[2 * i - 1]) + HexValue(digits[2 * i])]))
        ELSE Err(UuidError)

\* impl FromStr for RequestId
RequestId_from_str(str) ==
    LET parsed == Uuid_parse_str(str)
    IN  IF parsed.ok THEN Ok([id |-> parsed.value]) ELSE Err(parsed.value)

\* A u64 too wide for one number here: four 16-bit limbs, most significant first.
u64_from_be_bytes(bytes) ==
    [w3 |-> 256 * bytes[1] + bytes[2], w2 |-> 256 * bytes[3] + bytes[4],
     w1 |-> 256 * bytes[5] + bytes[6], w0 |-> 256 * bytes[7] + bytes[8]]

\* RequestId::unix_timestamp(&self) -> u64
unix_timestamp_of(request) == u64_from_be_bytes(SubSeq(request.id.bytes, 1, 8))

\* The u64 u is the number n, for |n| < 2^31: no u64 is a negative number.
u64_equals(u, n) ==
    /\ n >= 0
    /\ u.w3 = 0
    /\ u.w2 = 0
    /\ u.w1 < 32768
    /\ 65536 * u.w1 + u.w0 = n

InitRid ==
    /\ CallIdle
    /\ ReadyIdle
    /\ OthersIdle

RidMake(unix_timestamp, random) ==
    /\ rid_input = None
    /\ rid_input' = Some([unix_timestamp |-> unix_timestamp, random |-> random])
    /\ rid_value' = Some(from_timestamp_and_random(unix_timestamp, random))
    /\ UNCHANGED <<rid_text, rid_parsed, rid_timestamp, nonRidVars>>

\* request_id.to_string()
RidToString ==
    /\ rid_value # None
    /\ rid_text = None
    /\ rid_text' = Some(RequestId_to_string(Unwrap(rid_value)))
    /\ UNCHANGED <<rid_input, rid_value, rid_parsed, rid_timestamp, nonRidVars>>

\* RequestId::from_str(&text)
RidFromStr ==
    /\ rid_text # None
    /\ rid_parsed = None
    /\ rid_parsed' = Some(RequestId_from_str(Unwrap(rid_text)))
    /\ UNCHANGED <<rid_input, rid_value, rid_text, rid_timestamp, nonRidVars>>

\* request_id.unix_timestamp()
RidUnixTimestamp ==
    /\ rid_value # None
    /\ rid_timestamp = None
    /\ rid_timestamp' = Some(unix_timestamp_of(Unwrap(rid_value)))
    /\ UNCHANGED <<rid_input, rid_value, rid_text, rid_parsed, nonRidVars>>

NextRid ==
    \/ \E unix_timestamp \in Timestamps, random \in Randoms : RidMake(unix_timestamp, random)
    \/ RidToString
    \/ RidFromStr
    \/ RidUnixTimestamp

SpecRid == InitRid /\ [][NextRid]_vars

\* C20: parsing the Display rendering of a RequestId made from a timestamp and a
\* random number gives back that RequestId.
C20_TextRoundTrip ==
    rid_parsed # None =>
        /\ rid_parsed = Some(Ok(Unwrap(rid_value)))
        /\ Unwrap(rid_value) =
              from_timestamp_and_random(Unwrap(rid_input).unix_timestamp, Unwrap(rid_input).random)
        /\ Len(Unwrap(rid_text)) = 36

C20_Witness ==
    /\ rid_parsed # None
    /\ Unwrap(rid_input).unix_timestamp < 0
    /\ Unwrap(rid_input).random > 255
    /\ SubSeq(Unwrap(rid_text), 1, 9) = <<"f", "f", "f", "f", "f", "f", "f", "f", "-">>

\* C21: unix_timestamp() of a RequestId made from (timestamp, random) is that
\* timestamp, negative timestamps included.
C21_TimestampRoundTrip ==
    rid_timestamp # None =>
        u64_equals(Unwrap(rid_timestamp), Unwrap(rid_input).unix_timestamp)

(***************************************************************************)
(* XmlErrorMapper                                                          *)
(***************************************************************************)
\* The message texts of an error: the empty string and two others.
Messages == {<<>>, <<"The security token included in the request is invalid.">>,
             <<"Connection refused (os error 111)">>}

\* The SignatureError values map_error is given.
MapperSignatureErrors ==
    {SignatureError(variant, message) :
        variant \in {"InvalidRequestMethod", "MissingAuthenticationToken", "InvalidContentType",
                     "InternalServiceError", "InvalidClientTokenId", "SignatureDoesNotMatch",
                     "ExpiredToken"},
        message \in Messages}

\* Errors of other types.
MapperForeignErrors == {ForeignError("HandlerError"), ForeignError("FromUtf8Error")}

\* request_id: Option<RequestId>
MapperRequestIds ==
    {None} \cup {Some(from_timestamp_and_random(t, 305419896)) : t \in {0, 1700000000}}

\* The elements XmlError serializes into, with Message written even when it is None.
se_XmlError_no_skip(xml_error) ==
    <<[name |-> "Type", text |-> xml_error.Type], [name |-> "Code", text |-> xml_error.Code],
      [name |-> "Message", text |-> IF xml_error.Message = None THEN <<>> ELSE Unwrap(xml_error.Message)]>>

\* The elements XmlError serializes into: Type, Code and, unless it is None, Message.
se_XmlError(xml_error) ==
    <<[name |-> "Type", text |-> xml_error.Type], [name |-> "Code", text |-> xml_error.Code]>>
        \o (IF xml_error.Message = None
            THEN <<>>
            ELSE <<[name |-> "Message", text |-> Unwrap(xml_error.Message)]>>)

\* quick_xml::se::to_string(&xml_response): the ErrorResponse element with its
\* xmlns attribute, the Error element and, unless request_id is None, RequestId.
se_to_string(xml_response) ==
    [name |-> "ErrorResponse",
     xmlns |-> xml_response.xmlns,
     children |->
        <<[name |-> "Error", children |-> se_XmlError(xml_response.Error)]>>
            \o (IF xml_response.RequestId = None
                THEN <<>>
                ELSE <<[name |-> "RequestId",
                        text |-> RequestId_to_string(Unwrap(xml_response.RequestId))]>>)]

InitMapper ==
    /\ CallIdle
    /\ ReadyIdle
    /\ TlsNew
    /\ GskIdle
    /\ BinderIdle
    /\ RidIdle
    /\ SpawnIdle
    /\ mapper_self \in [namespace : {"service-ns", "https://sts.amazonaws.com/doc/2011-06-15/"}]
    /\ mapper_input = None
    /\ mapper_returned = None
    /\ mapper_xml = None

\* error_mapper.map_error(e, request_id).await
MapperMapError(e, request) ==
    /\ mapper_input = None
    /\ mapper_input' = Some([error |-> e, request_id |-> request])
    /\ LET returned == XmlErrorMapper_map_error(mapper_self.namespace, e, request)
       IN  /\ mapper_returned' = Some(returned)
           /\ mapper_xml' = IF returned.ok THEN Some(se_to_string(returned.value.body)) ELSE None
    /\ UNCHANGED <<mapper_self, nonMapperVars>>

NextMapper ==
    \E e \in MapperSignatureErrors \cup MapperForeignErrors, request \in MapperRequestIds :
        MapperMapError(e, request)

SpecMapper == InitMapper /\ [][NextMapper]_vars

(***************************************************************************)
(* Claims about XmlErrorMapper                                             *)
(***************************************************************************)
\* The positions of the children of an element that have this name.
ChildrenNamed(element, name) ==
    {i \in 1..Len(element.children) : element.children[i].name = name}

MappedSignatureError ==
    /\ mapper_input # None
    /\ Unwrap(mapper_input).error.type = "SignatureError"

\* The Error element of the document written.
ErrorElement ==
    Unwrap(mapper_xml).children[CHOOSE i \in ChildrenNamed(Unwrap(mapper_xml), "Error") : TRUE]

\* C22: for every SignatureError map_error returns Ok(response) with the status of
\* the error, Content-Type "text/xml; charset=utf-8", and an Error/Type element that
\* is "Receiver" when the status is 500 or more and "Sender" otherwise.
C22_MapErrorSucceeds ==
    MappedSignatureError =>
        LET e == Unwrap(mapper_input).error
            returned == Unwrap(mapper_returned)
        IN  /\ returned.ok
            /\ returned.value.status = http_status(e)
            /\ returned.value.status \in {400, 403, 415, 500}
            /\ e.variant = "InternalServiceError" => returned.value.status = 500
            /\ e.variant = "SignatureDoesNotMatch" => returned.value.status = 403
            /\ returned.value.content_type = "text/xml; charset=utf-8"
            /\ mapper_xml # None
            /\ Cardinality(ChildrenNamed(Unwrap(mapper_xml), "Error")) = 1
            /\ Cardinality(ChildrenNamed(ErrorElement, "Type")) = 1
            /\ \A i \in ChildrenNamed(ErrorElement, "Type") :
                 ErrorElement.children[i].text =
                     IF returned.value.status >= 500 THEN "Receiver" ELSE "Sender"

C22_Witness ==
    /\ MappedSignatureError
    /\ Unwrap(mapper_returned).ok
    /\ Unwrap(mapper_returned).value.status = 500
    /\ ErrorElement.children[1] = [name |-> "Type", text |-> "Receiver"]

\* C23: the document has a Message element exactly when the error's message is not
\* empty, holding that message, and a RequestId element exactly when a RequestId was
\* given, holding its textual form; otherwise it has no such element.
C23_OptionalElements ==
    MappedSignatureError =>
        LET e == Unwrap(mapper_input).error
            request == Unwrap(mapper_input).request_id
            doc == Unwrap(mapper_xml)
            messages == ChildrenNamed(ErrorElement, "Message")
            request_ids == ChildrenNamed(doc, "RequestId")
        IN  /\ Cardinality(messages) = IF e.message = <<>> THEN 0 ELSE 1
            /\ \A i \in messages : ErrorElement.children[i].text = e.message
            /\ Cardinality(request_ids) = IF request = None THEN 0 ELSE 1
            /\ \A i \in request_ids :
                 /\ doc.children[i].text = RequestId_to_string(Unwrap(request))
                 /\ Len(doc.children[i].text) = 36
            /\ doc.xmlns = mapper_self.namespace

C23_Witness ==
    /\ MappedSignatureError
    /\ Unwrap(mapper_input).error.message = <<>>
    /\ Unwrap(mapper_input).request_id # None
    /\ Len(ErrorElement.children) = 2
    /\ Len(Unwrap(mapper_xml).children) = 2

(***************************************************************************)
(* Further claims about AwsSigV4VerifierService::call                      *)
(***************************************************************************)
\* The error mapper was given an error that is not a SignatureError.
ForeignErrorMapped ==
    /\ calls.map_error = 1
    /\ IsSome(mapped.error)
    /\ Unwrap(mapped.error).type = "Foreign"

\* C24: given an error that is not a SignatureError, map_error returns Err with
\* that same error, and call returns that Err as its own result: no response.
C24_ForeignErrorUnresolved ==
    ForeignErrorMapped =>
        /\ mapped.returned = Some(Err(Unwrap(mapped.error)))
        /\ pc = "done"
        /\ result = Some(Err(Unwrap(mapped.error)))
        /\ mapped.error = error

C24_Witness ==
    /\ ForeignErrorMapped
    /\ pc = "done"
    /\ ~Unwrap(result).ok
    /\ Unwrap(result).value = ForeignError("FromUtf8Error")

(***************************************************************************)
(* SpawnService                                                            *)
(***************************************************************************)
\* The SpawnService values a SpawnServiceBuilder can build.
SpawnServices ==
    [region : {"local", "us-east-1"}, service : {"service"},
     allowed_request_methods : {{}, {"GET"}},
     allowed_content_types : {{}, {"application/json"}},
     signed_header_requirements : {"default", "host-required"},
     get_signing_key : {"GetDummyCreds"}, implementation : {"HelloService"},
     error_mapper : [namespace : {"service-ns"}],
     signature_options : {"default", "s3"}]

\* The connection call is handed: &AddrStream or &TlsStream<TcpStream>.
Connections == {"AddrStream", "TlsStream"}

\* AwsSigV4VerifierServiceBuilder::default(): no field set.
AwsSigV4VerifierServiceBuilder_default ==
    [region |-> None, service |-> None, allowed_request_methods |-> None,
     allowed_content_types |-> None, signed_header_requirements |-> None,
     get_signing_key |-> None, implementation |-> None, error_mapper |-> None,
     signature_options |-> None]

unwrap_or(option, default) == IF option = None THEN default ELSE Unwrap(option)

\* AwsSigV4VerifierServiceBuilder::build(): region, service and the three
\* collaborators are required, the other fields have defaults.
AwsSigV4VerifierServiceBuilder_build(builder) ==
    IF \E field \in {"region", "service", "get_signing_key", "implementation", "error_mapper"} :
           builder[field] = None
    THEN Err([type |-> "Foreign", variant |-> "UninitializedField",
              message |-> <<"field not initialized">>])
    ELSE Ok([region |-> Unwrap(builder.region),
             service |-> Unwrap(builder.service),
             allowed_request_methods |-> unwrap_or(builder.allowed_request_methods, {}),
             allowed_content_types |-> unwrap_or(builder.allowed_content_types, {}),
             signed_header_requirements |->
                 unwrap_or(builder.signed_header_requirements, "default"),
             get_signing_key |-> Unwrap(builder.get_signing_key),
             implementation |-> Unwrap(builder.implementation),
             error_mapper |-> Unwrap(builder.error_mapper),
             signature_options |-> unwrap_or(builder.signature_options, "default")])

\* call with the allowed_content_types setter left out.
SpawnService_call_without_content_types(spawner) ==
    AwsSigV4VerifierServiceBuilder_build(
        [AwsSigV4VerifierServiceBuilder_default EXCEPT
            !.region = Some(spawner.region),
            !.service = Some(spawner.service),
            !.allowed_request_methods = Some(spawner.allowed_request_methods),
            !.signed_header_requirements = Some(spawner.signed_header_requirements),
            !.get_signing_key = Some(spawner.get_signing_key),
            !.implementation = Some(spawner.implementation),
            !.error_mapper = Some(spawner.error_mapper),
            !.signature_options = Some(spawner.signature_options)])

\* SpawnService::call: a clone of every field goes through the builder's setters.
SpawnService_call(spawner) ==
    AwsSigV4VerifierServiceBuilder_build(
        [AwsSigV4VerifierServiceBuilder_default EXCEPT
            !.region = Some(spawner.region),
            !.service = Some(spawner.service),
            !.allowed_request_methods = Some(spawner.allowed_request_methods),
            !.allowed_content_types = Some(spawner.allowed_content_types),
            !.signed_header_requirements = Some(spawner.signed_header_requirements),
            !.get_signing_key = Some(spawner.get_signing_key),
            !.implementation = Some(spawner.implementation),
            !.error_mapper = Some(spawner.error_mapper),
            !.signature_options = Some(spawner.signature_options)])

InitSpawn ==
    /\ CallIdle
    /\ ReadyIdle
    /\ TlsNew
    /\ GskIdle
    /\ BinderIdle
    /\ RidIdle
    /\ MapperIdle
    /\ spawn_self \in SpawnServices
    /\ spawn_made = <<>>
    /\ spawn_ready = None

\* SpawnService::poll_ready, for either kind of connection.
SpawnPollReady ==
    /\ spawn_ready' = Some(Ready(Ok(Unit)))
    /\ UNCHANGED <<spawn_self, spawn_made, nonSpawnVars>>

\* SpawnService::call(&conn) and the future it returns.
SpawnCall(conn) ==
    /\ Len(spawn_made) < MaxConnections
    /\ spawn_made' = Append(spawn_made, [conn |-> conn, returned |-> SpawnService_call(spawn_self)])
    /\ UNCHANGED <<spawn_self, spawn_ready, nonSpawnVars>>

NextSpawn ==
    \/ SpawnPollReady
    \/ \E conn \in Connections : SpawnCall(conn)

SpecSpawn == InitSpawn /\ [][NextSpawn]_vars

\* What has been returned so far stays as it was, and so does the SpawnService.
SpawnFrame ==
    /\ spawn_self' = spawn_self
    /\ SubSeq(spawn_made', 1, Len(spawn_made)) = spawn_made

\* C25: poll_ready always returns Ready(Ok(())); every call returns Ok with a
\* service whose nine fields equal the SpawnService's; no step changes the
\* SpawnService or a service returned earlier.
C25_SpawnedServiceEqualsFactory ==
    /\ [](/\ spawn_ready \in {None, Some(Ready(Ok(Unit)))}
          /\ \A i \in 1..Len(spawn_made) :
               /\ spawn_made[i].returned.ok
               /\ \A field \in {"region", "service", "allowed_request_methods",
                                "allowed_content_types", "signed_header_requirements",
                                "get_signing_key", "implementation", "error_mapper",
                                "signature_options"} :
                      spawn_made[i].returned.value[field] = spawn_self[field]
               /\ DOMAIN spawn_made[i].returned.value = DOMAIN spawn_self)
    /\ [][SpawnFrame]_vars

C25_Witness ==
    /\ Len(spawn_made) = MaxConnections
    /\ spawn_made[1].conn = "AddrStream"
    /\ spawn_made[2].conn = "TlsStream"
    /\ spawn_ready # None
    /\ spawn_self.allowed_content_types # {}
    /\ spawn_self.allowed_request_methods # {}
    /\ spawn_self.signature_options # "default"

(***************************************************************************)
(* Further claims about Binder                                             *)
(***************************************************************************)
\* The b-th Binder is of this kind and has returned at least one placeholder.
BinderUsed(b, kind) ==
    /\ binders[b] # None
    /\ Unwrap(binders[b]).kind = kind
    /\ Len(binder_ids[b]) > 0

BinderStep(b) ==
    \/ /\ binders[b] = None
       /\ binders'[b] \in {None} \cup {Some(Binder_new(kind)) : kind \in AnyKinds}
    \/ /\ binders[b] # None
       /\ binders'[b] # None
       /\ Unwrap(binders'[b]).kind = Unwrap(binders[b]).kind
       /\ \/ /\ binder_ids'[b] = binder_ids[b]
             /\ Unwrap(binders'[b]).next_id = Unwrap(binders[b]).next_id
          \/ /\ Len(binder_ids'[b]) = Len(binder_ids[b]) + 1
             /\ Unwrap(binders'[b]).next_id = Unwrap(binders[b]).next_id + 1

\* C27: a new Binder's next_id is 1; each next_param_id call raises it by exactly 1
\* whatever the kind, so it is always one more than the number of calls made; it
\* never drops and the kind never changes.
C27_BinderCounter ==
    /\ [](\A b \in 1..MaxBinders :
            binders[b] # None =>
                /\ Unwrap(binders[b]).next_id = Len(binder_ids[b]) + 1
                /\ Unwrap(binders[b]).kind \in AnyKinds)
    /\ [][\A b \in 1..MaxBinders : BinderStep(b)]_vars

C27_Witness ==
    \E b, c \in 1..MaxBinders :
        /\ BinderUsed(b, "Sqlite")
        /\ Unwrap(binders[b]).next_id = 4
        /\ binder_ids[b] = <<<<"?">>, <<"?">>, <<"?">>>>
        /\ BinderUsed(c, "Postgres")
        /\ Unwrap(binders[c]).next_id = 3

(***************************************************************************)
(* Further claims about TlsIncoming                                        *)
(***************************************************************************)
\* The last poll_accept found the slot empty and the listener not ready.
ListenerNotReady ==
    /\ tls_last.listener_polled
    /\ ~tls_last.handshake_started
    /\ tls_last.returned = Pending

\* C28: a poll_accept that finds the slot empty and the listener not ready returns
\* Pending, creates no handshake and leaves the slot empty; one in which the
\* listener hands out a connection creates the handshake for that connection,
\* stores it in the slot and polls it in the same call.
C28_AcceptCycleStart ==
    /\ ListenerNotReady =>
          /\ tls_stream_accept = None
          /\ ~tls_last.handshake_polled
    /\ (tls_last.listener_polled /\ ~tls_last.handshake_started) => tls_stream_accept = None
    /\ tls_last.handshake_started =>
          /\ tls_last.listener_polled
          /\ tls_last.handshake_polled
          /\ ~tls_last.repolled
          /\ tls_stream_accept # None
          /\ Unwrap(tls_stream_accept).conn = tls_accepted
          /\ tls_last.returned = Pending => ~Unwrap(tls_stream_accept).completed
          /\ tls_last.returned # Pending =>
                /\ Unwrap(tls_stream_accept).completed
                /\ Unwrap(Unwrap(tls_last.returned)).value.conn = tls_accepted

C28_Witness ==
    /\ tls_last.handshake_started
    /\ tls_last.returned # Pending
    /\ tls_polls >= 2
    /\ tls_items = <<Unwrap(Unwrap(tls_last.returned))>>

\* The connections whose handshake has been started and has not yielded a result.
HandshakesInProgress ==
    {c \in 1..tls_accepted :
        \A i \in 1..Len(tls_items) :
            ~(tls_items[i].value.source = "handshake" /\ tls_items[i].value.conn = c)}

\* A poll_accept step polls the listener only from an empty slot; from a slot
\* whose handshake stays Pending it returns Pending, accepts nothing and keeps
\* the handshake.
SingleFlowStep ==
    /\ tls_last'.listener_polled => tls_stream_accept = None
    /\ tls_stream_accept # None =>
          /\ ~tls_last'.listener_polled
          /\ ~tls_last'.handshake_started
          /\ tls_accepted' = tls_accepted
          /\ tls_last'.handshake_polled
          /\ tls_last'.returned = Pending =>
                /\ tls_stream_accept' = tls_stream_accept
                /\ tls_items' = tls_items

\* C29: at most one handshake is in progress, the one in the slot; the listener
\* is polled only in a poll_accept call that starts with an empty slot; while the
\* handshake is Pending poll_accept returns Pending, accepts no other connection
\* and keeps the handshake in the slot.
C29_SingleFlow ==
    /\ [](/\ Cardinality(HandshakesInProgress) <= 1
          /\ \A c \in HandshakesInProgress :
               /\ tls_stream_accept # None
               /\ Unwrap(tls_stream_accept).conn = c
               /\ ~Unwrap(tls_stream_accept).completed)
    /\ [][SingleFlowStep]_vars

C29_Witness ==
    /\ tls_polls >= 3
    /\ tls_stream_accept # None
    /\ ~Unwrap(tls_stream_accept).completed
    /\ ~tls_last.listener_polled
    /\ tls_last.handshake_polled
    /\ tls_last.returned = Pending
    /\ HandshakesInProgress = {1}

(***************************************************************************)
(* Further claims about the content-type check                             *)
(***************************************************************************)
\* The base type of the request's Content-Type header is in the list.
ContentTypeAllowed ==
    /\ IsSome(Unwrap(req).content_type)
    /\ Unwrap(Unwrap(req).content_type)[1] \in cfg.allowed_content_types

\* C30: of the requests the content-type check looks at (those the method check
\* let through), one that is not a GET and whose base type is outside a non-empty
\* allowed_content_types is rejected with InvalidContentType whatever its
\* Content-Length, Expect and Transfer-Encoding headers, and never reaches the
\* verifier; one whose base type is in the list passes the check.
C30_ContentTypeCheck ==
    (Started /\ checks.method = "pass") =>
        /\ (Unwrap(req).method # "GET" /\ ContentTypeNotAllowed) =>
              /\ checks.content_type = "fail"
              /\ ErrorIs("InvalidContentType")
              /\ ~VerificationReached
              /\ calls.implementation = 0
        /\ ContentTypeAllowed =>
              /\ checks.content_type = "pass"
              /\ ~ErrorIs("InvalidContentType")

C30_Witness ==
    /\ pc = "done"
    /\ checks.method = "pass"
    /\ Unwrap(req).method = "POST"
    /\ ContentTypeNotAllowed
    /\ ~Unwrap(req).content_length
    /\ ~Unwrap(req).expect
    /\ ~Chunked
    /\ checks.content_type = "fail"
    /\ Unwrap(result).ok
    /\ Unwrap(result).value.status = 415

(***************************************************************************)
(* Further claims about the order and the outcome of the pipeline          *)
(***************************************************************************)
\* Rule 3's condition holds of the request: were it evaluated, it would reject.
ContentTypeWouldBeRejected ==
    content_type_rejected(cfg.allowed_content_types, Unwrap(req))

\* C31: a request that violates both the method policy and the content-type policy
\* is reported as InvalidRequestMethod and never as InvalidContentType: the method
\* check comes first and returns, the content-type check is not evaluated, and the
\* error mapper is given the InvalidRequestMethod error.
C31_MethodCheckFirst ==
    (Started /\ MethodNotAllowed /\ ContentTypeWouldBeRejected) =>
        /\ checks = [method |-> "fail", content_type |-> "unchecked"]
        /\ ErrorIs("InvalidRequestMethod")
        /\ ~ErrorIs("InvalidContentType")
        /\ pc \in {"map_error", "done"}
        /\ pc = "done" =>
             /\ calls.map_error = 1
             /\ Unwrap(mapped.error).variant = "InvalidRequestMethod"
             /\ result = mapped.returned

C31_Witness ==
    /\ pc = "done"
    /\ MethodNotAllowed
    /\ ContentTypeNotAllowed
    /\ ContentTypeWouldBeRejected
    /\ Unwrap(req).method = "POST"
    /\ Unwrap(mapped.error).variant = "InvalidRequestMethod"
    /\ checks.content_type = "unchecked"

(***************************************************************************)
(* Several futures of one AwsSigV4VerifierService in flight                *)
(***************************************************************************)
\* The service followed with several futures in flight: GET only, JSON only.
InterleavedConfigs ==
    {c \in Configs : /\ c.allowed_request_methods = {"GET"}
                     /\ c.allowed_content_types = {"application/json"}}

\* The requests followed with several futures in flight: one the method check
\* refuses, one the content-type check refuses, one that reaches the verifier.
InterleavedRequests ==
    {r \in Requests :
        /\ r.transfer_encoding = None
        /\ \/ /\ r.method = "POST"
              /\ r.content_type = None
              /\ ~r.content_length /\ ~r.expect
              /\ r.extensions.RequestId = None
           \/ /\ r.method = "GET"
              /\ r.content_type = Some(<<"application/octet-stream">>)
              /\ r.content_length /\ r.expect
              /\ r.extensions.RequestId # None
           \/ /\ r.method = "GET"
              /\ r.content_type = None
              /\ ~r.content_length /\ ~r.expect
              /\ r.extensions.RequestId = None}

\* The future being polled: the async block's locals and the history kept for it.
RunningFuture ==
    [pc |-> pc, req |-> req, inbound_id |-> inbound_id, request_id |-> request_id,
     checks |-> checks, calls |-> calls, error |-> error, verifier |-> verifier,
     mapped |-> mapped, handled |-> handled, result |-> result]

InitInterleaved ==
    /\ cfg \in InterleavedConfigs
    /\ pc = "idle"
    /\ req = None
    /\ inbound_id = None
    /\ request_id = None
    /\ checks = NoChecks
    /\ calls = NoCalls
    /\ error = None
    /\ verifier = NoVerifier
    /\ mapped = NoMapped
    /\ handled = NoHandled
    /\ result = None
    /\ ReadyIdle
    /\ OthersIdle
    /\ ParkedIdle

\* The executor leaves the future it was polling where it stands (at an await, not
\* yet polled, or finished) and turns to the one in slot i: each future is a value of
\* its own (Pin<Box<dyn Future + Send>>), and the service may be called meanwhile.
Switch(i) ==
    /\ parked[i] # RunningFuture
    /\ parked' = [parked EXCEPT ![i] = RunningFuture]
    /\ pc' = parked[i].pc
    /\ req' = parked[i].req
    /\ inbound_id' = parked[i].inbound_id
    /\ request_id' = parked[i].request_id
    /\ checks' = parked[i].checks
    /\ calls' = parked[i].calls
    /\ error' = parked[i].error
    /\ verifier' = parked[i].verifier
    /\ mapped' = parked[i].mapped
    /\ handled' = parked[i].handled
    /\ result' = parked[i].result
    /\ UNCHANGED <<cfg, readyVars, tlsVars, gskVars, binderVars, ridVars, mapperVars, spawnVars>>

NextInterleaved ==
    \/ \E r \in InterleavedRequests : Call(r)
    \/ Start
    \/ ValidateRequest
    \/ GetSigningKeyReturns
    \/ MapError
    \/ ImplementationOneshot
    \/ Complete
    \/ \E i \in 1..MaxParked : Switch(i)

SpecInterleaved == InitInterleaved /\ [][NextInterleaved]_vars

\* The futures in flight: the one being polled and the suspended ones.
Futures == {RunningFuture} \cup {parked[i] : i \in 1..MaxParked}

\* What call() returns for the request of future f processed alone on a service with
\* fields c: from the request as it arrived, the id RequestId::new() gave it, and
\* what the verifier and the handler answered for it.
OutcomeAlone(c, f) ==
    LET r0 == [Unwrap(f.req) EXCEPT !.extensions = [NoExtensions EXCEPT !.RequestId = f.inbound_id]]
        r == with_request_id(r0, Unwrap(f.request_id))
        id == Some(request_id_for(r0, Unwrap(f.request_id)))
        after == policy_checks(c.allowed_request_methods, c.allowed_content_types, r)
    IN  IF IsSome(after.error)
        THEN XmlErrorMapper_map_error(c.namespace, Unwrap(after.error), id)
        ELSE IF f.verifier.returned = "Err"
        THEN XmlErrorMapper_map_error(c.namespace, Unwrap(f.verifier.error), id)
        ELSE map_err_into(Unwrap(f.handled.returned))

\* Every finished future holds the outcome its request has when processed alone.
OutcomesAsAlone ==
    \A f \in Futures : f.pc = "done" => f.result = Some(OutcomeAlone(cfg, f))

\* A step changes at most the future being polled: the suspended ones are as they
\* were, or the step only exchanges the polled future with a suspended one.
OneFutureStep ==
    \/ parked' = parked
    \/ \E i \in 1..MaxParked :
         /\ parked'[i] = RunningFuture
         /\ RunningFuture' = parked[i]
         /\ \A j \in 1..MaxParked : j # i => parked'[j] = parked[j]

\* C32: whatever number of requests one service processes, in any interleaving of
\* their futures, its region, service, allowed methods, allowed content types,
\* signed-header requirements and signature options stay as built, a step of one
\* future leaves the others as they were, and each finished future holds the outcome
\* its request has when processed alone (a function of the request, the id generated
\* for it and the answers of the verifier and the handler for it).
C32_RequestsIndependent ==
    /\ []OutcomesAsAlone
    /\ [][cfg' = cfg /\ OneFutureStep]_vars

C32_Witness ==
    /\ pc = "done"
    /\ Unwrap(result).ok
    /\ Unwrap(result).value.status = 200
    /\ calls.implementation = 1
    /\ \E i \in 1..MaxParked :
         /\ parked[i].pc = "done"
         /\ Unwrap(parked[i].result).ok
         /\ Unwrap(parked[i].mapped.error).variant = "InvalidRequestMethod"
         /\ Unwrap(parked[i].result).value.status = 400
         /\ parked[i].calls.map_error = 1
         /\ Unwrap(parked[i].req).method # Unwrap(req).method
         /\ Unwrap(parked[i].req).extensions.RequestId # Unwrap(req).extensions.RequestId

\* C33 as stated: every call that completes ends with the error mapper invoked
\* exactly once and the handler never, or with the handler invoked exactly once and
\* the error mapper never; none invokes both, none neither.
C33_MapperXorHandler ==
    pc = "done" =>
        \/ calls.map_error = 1 /\ calls.implementation = 0
        \/ calls.implementation = 1 /\ calls.map_error = 0

\* C33 amended: every call that completes ends in one of three ways, and never with
\* both the error mapper and the handler invoked: a check or the verifier failed, the
\* error mapper was invoked exactly once and the handler never; or the verifier
\* succeeded, the error mapper was never invoked and the handler was called exactly
\* once; or the verifier succeeded and the handler's poll_ready failed inside
\* oneshot, and then neither was invoked and the call returns that readiness error.
C33_MapperOrHandlerOrNeither ==
    /\ ~(calls.map_error > 0 /\ calls.implementation > 0)
    /\ calls.map_error <= 1
    /\ calls.implementation <= 1
    /\ pc = "done" =>
         \/ /\ PipelineFailed
            /\ calls.map_error = 1
            /\ calls.implementation = 0
         \/ /\ ~PipelineFailed
            /\ verifier.returned = "Ok"
            /\ calls.map_error = 0
            /\ calls.implementation = 1
            /\ handled.req = req
         \/ /\ ~PipelineFailed
            /\ verifier.returned = "Ok"
            /\ calls.map_error = 0
            /\ calls.implementation = 0
            /\ handled.req = None
            /\ ~Unwrap(result).ok
            /\ Unwrap(result).value \in ImplementationErrors

C33_Witness ==
    /\ pc = "done"
    /\ verifier.returned = "Ok"
    /\ calls.map_error = 0
    /\ calls.implementation = 0
    /\ calls.sigv4_validate_request = 1
    /\ ~Unwrap(result).ok

\* C35: the content-type policy is applied only to a request that carries a
\* Content-Type header. A request without one is never rejected with
\* InvalidContentType, whatever allowed_content_types (empty or not) and whatever
\* its method; when the method check lets it through it passes the content-type
\* check and goes on to signature verification.
C35_NoHeaderNoContentTypeCheck ==
    (Started /\ Unwrap(req).content_type = None) =>
        /\ checks.content_type # "fail"
        /\ ~ErrorIs("InvalidContentType")
        /\ checks.method = "pass" =>
             /\ checks.content_type = "pass"
             /\ VerificationReached
             /\ pc \notin {"sigv4_validate_request"} => calls.sigv4_validate_request = 1

C35_Witness ==
    /\ pc = "done"
    /\ Unwrap(req).content_type = None
    /\ Unwrap(req).method = "POST"
    /\ Unwrap(req).content_length
    /\ cfg.allowed_content_types = {"application/json"}
    /\ checks = [method |-> "pass", content_type |-> "pass"]
    /\ calls.sigv4_validate_request = 1
    /\ calls.implementation = 1

(***************************************************************************)
(* Further claims about TlsIncoming: completed handshakes and progress     *)
(***************************************************************************)
\* The stream items that are the handshake result of connection c.
ItemsOf(c) ==
    {i \in 1..Len(tls_items) :
        tls_items[i].value.source = "handshake" /\ tls_items[i].value.conn = c}

\* C34: no poll_accept polls a handshake future that has already returned Ready
\* (so none panics on one), each accepted connection contributes at most one stream
\* item, and a poll_accept that polls a handshake it did not start itself leaves it
\* Pending or yields its one result.
C34_CompletedHandshakeNotPolled ==
    /\ ~tls_last.repolled
    /\ ~tls_panicked
    /\ \A c \in 1..tls_accepted : Cardinality(ItemsOf(c)) <= 1
    /\ (tls_last.handshake_polled /\ ~tls_last.handshake_started) =>
          tls_last.returned = Pending \/ Cardinality(ItemsOf(Unwrap(tls_stream_accept).conn)) = 1

\* What the listener answers while connection c is the next one, when it never
\* errors and has MaxOffered connections to offer.
OfferingPolls(c) ==
    {l \in ListenerPolls(c) : l = Pending \/ (Unwrap(l).ok /\ c <= MaxOffered)}

\* One call of poll_accept, repeated without end: the listener answers l, the poll
\* of the handshake goes as o says; the count of calls stops at MaxCounted.
PollAcceptAgain(l, o) ==
    /\ ~tls_panicked
    /\ l \in OfferingPolls(tls_accepted + 1)
    /\ Applicable(IF tls_stream_accept = None
                  THEN accept(Stream("listener", tls_accepted + 1, "TcpStream"))
                  ELSE Unwrap(tls_stream_accept), o)
    /\ o = "Again" => Len(tls_items) < MaxCounted
    /\ LET r == poll_accept(tls_stream_accept, l, o)
       IN  /\ tls_stream_accept' = r.slot
           /\ tls_accepted' = IF r.handshake_started THEN tls_accepted + 1 ELSE tls_accepted
           /\ tls_items' = IF r.returned = Pending
                           THEN tls_items
                           ELSE Append(tls_items, Unwrap(Unwrap(r.returned)))
           /\ tls_last' = [listener_polled |-> r.listener_polled,
                           handshake_started |-> r.handshake_started,
                           handshake_polled |-> r.handshake_polled,
                           repolled |-> r.repolled,
                           returned |-> r.returned]
           /\ tls_panicked' = r.panicked
    /\ tls_polls' = IF tls_polls < MaxCounted THEN tls_polls + 1 ELSE tls_polls
    /\ UNCHANGED nonTlsVars

\* A poll_accept in which the listener hands out the connection it has on offer.
ListenerOffers ==
    /\ tls_stream_accept = None
    /\ \E l \in OfferingPolls(tls_accepted + 1), o \in HandshakeOutcomes :
         l # Pending /\ PollAcceptAgain(l, o)

\* A poll_accept in which the handshake in progress completes.
HandshakeCompletes ==
    /\ tls_stream_accept # None
    /\ ~Unwrap(tls_stream_accept).completed
    /\ \E l \in OfferingPolls(tls_accepted + 1), o \in {"Ok", "Err"} : PollAcceptAgain(l, o)

NextTlsProgress ==
    \E l \in OfferingPolls(tls_accepted + 1), o \in HandshakeOutcomes : PollAcceptAgain(l, o)

\* poll_accept is called again and again, the listener hands out what it has on
\* offer when polled again and again, and a handshake polled again and again
\* completes.
SpecTlsProgress ==
    /\ InitTls
    /\ [][NextTlsProgress]_vars
    /\ WF_vars(NextTlsProgress)
    /\ SF_vars(ListenerOffers)
    /\ SF_vars(HandshakeCompletes)

\* The handshake results among the items are in the order of acceptance.
ItemsInAcceptOrder ==
    \A i, j \in 1..Len(tls_items) :
        (i < j /\ tls_items[i].value.source = "handshake"
               /\ tls_items[j].value.source = "handshake") =>
            tls_items[i].value.conn < tls_items[j].value.conn

\* C36: when poll_accept is called repeatedly, the listener never errors and every
\* handshake polled repeatedly completes, every connection the listener offers is
\* eventually accepted and its handshake result eventually yielded as a stream item,
\* in the order the connections were accepted, and the stream does not stay Pending
\* forever while the listener has a connection to offer.
C36_Progress ==
    /\ \A c \in 1..MaxOffered : <>(tls_accepted >= c /\ ItemsOf(c) # {})
    /\ []ItemsInAcceptOrder
    /\ ~<>[](tls_accepted < MaxOffered /\ tls_last.returned = Pending)

====
